---------------------------- MODULE Spec2Model ----------------------------
(***************************************************************************)
(* Duplicate-content detection of mad-useful: content normalisation,       *)
(* content-defined chunking with a rolling hash, chunk fingerprints, the   *)
(* corpus chunk index and the duplication score                            *)
(* (src/src/analysis.rs, src/src/file_utils.rs).                           *)
(*                                                                         *)
(* Bytes are the integers 0..255 and a string is the sequence of its bytes.*)
(* Code indexes from 0, sequences here from 1: At(bytes, i) is bytes[i].   *)
(***************************************************************************)
EXTENDS Integers, Sequences, FiniteSets, TLC

At(bytes, i) == bytes[i + 1]

\* bytes[from..to) of the code: the slice with 0-based ends, to excluded.
Slice(bytes, from, to) == SubSeq(bytes, from + 1, to)

Min(a, b) == IF a <= b THEN a ELSE b

\* Body(expr), with expr computed once, before Body uses it (the checker would
\* otherwise compute an operator's argument anew at each of its uses).
Eager(expr, Body(_)) == CHOOSE r \in {Body(v) : v \in {expr}} : TRUE

RECURSIVE FoldRange(_, _, _, _)
\* `for i in lo..=hi { acc = Step(acc, i) }`, evaluated by halving the range
FoldRange(Step(_, _), lo, hi, acc) ==
    IF lo > hi THEN acc
    ELSE IF lo = hi THEN Eager(acc, LAMBDA v : Step(v, lo))
    ELSE LET mid == (lo + hi) \div 2
         IN  Eager(FoldRange(Step, lo, mid, acc),
                   LAMBDA v : FoldRange(Step, mid + 1, hi, v))

(***************************************************************************)
(* Arithmetic.  The checker's integers are 32 bits wide, the code's are    *)
(* 64.  The hashes of extract_chunks stay below the modulus 10^9 + 7, so a *)
(* product of two of them is formed from their base-1000 digits and        *)
(* reduced with 10^9 = -7 (mod 10^9 + 7); no intermediate value reaches    *)
(* 2^31.  A u64 that wraps is four 16-bit limbs, lowest first.             *)
(***************************************************************************)
\* (2 * x) % m for 0 <= x < m
Twice(x, m) == (2 * x) % m

\* (7 * x) % m for 0 <= x < m
Seven(x, m) == (((Twice(Twice(x, m), m) + Twice(x, m)) % m) + x) % m

\* (a * b) % m for 0 <= a, b < m and m = 10^9 + 7, the product taken in the integers
MulMod(a, b, m) ==
    LET a0 == a % 1000
        a1 == (a \div 1000) % 1000
        a2 == a \div 1000000
        b0 == b % 1000
        b1 == (b \div 1000) % 1000
        b2 == b \div 1000000
        \* a * b = s0 + s1 * 10^3 + s2 * 10^6 + s3 * 10^9 + s4 * 10^12
        s0 == a0 * b0
        s1 == a0 * b1 + a1 * b0
        s2 == a0 * b2 + a1 * b1 + a2 * b0
        s3 == a1 * b2 + a2 * b1
        s4 == a2 * b2
        \* s2 * 10^6 = (s2 \div 1000) * 10^9 + (s2 % 1000) * 10^6, and 10^9 = -7 (mod m)
        plus == (((s0 + ((s1 * 1000) % m)) % m) + ((s2 % 1000) * 1000000)) % m
        minus == ((7 * (s2 \div 1000)) + (7 * s3) + Seven((1000 * s4) % m, m)) % m
    IN  (plus + m - minus) % m

\* a * b for 0 <= a, b < 2^31, exact, as its seven base-1000 digits, lowest first
Product(a, b) ==
    LET a0 == a % 1000
        a1 == (a \div 1000) % 1000
        a2 == a \div 1000000
        b0 == b % 1000
        b1 == (b \div 1000) % 1000
        b2 == b \div 1000000
        c0 == a0 * b0
        c1 == a0 * b1 + a1 * b0 + (c0 \div 1000)
        c2 == a0 * b2 + a1 * b1 + a2 * b0 + (c1 \div 1000)
        c3 == a1 * b2 + a2 * b1 + (c2 \div 1000)
        c4 == a2 * b2 + (c3 \div 1000)
    IN  <<c0 % 1000, c1 % 1000, c2 % 1000, c3 % 1000, c4 % 1000,
          (c4 \div 1000) % 1000, c4 \div 1000000>>

\* digits + n for n < 1000, on seven base-1000 digits; the eighth digit is the carry out
PlusSmall(digits, n) ==
    LET c1 == digits[1] + n
        c2 == digits[2] + (c1 \div 1000)
        c3 == digits[3] + (c2 \div 1000)
        c4 == digits[4] + (c3 \div 1000)
        c5 == digits[5] + (c4 \div 1000)
        c6 == digits[6] + (c5 \div 1000)
        c7 == digits[7] + (c6 \div 1000)
    IN  <<c1 % 1000, c2 % 1000, c3 % 1000, c4 % 1000, c5 % 1000, c6 % 1000, c7 % 1000,
          c7 \div 1000>>

\* 2^64 = 18 446 744 073 709 551 616 in base-1000 digits, lowest first
TwoTo64 == <<616, 551, 709, 73, 744, 446, 18, 0>>

\* the number with these base-1000 digits is below 2^64: it fits a u64
FitsU64(digits) ==
    LET d == [k \in 1..8 |-> IF k <= Len(digits) THEN digits[k] ELSE 0]
    IN  \E k \in 1..8 : d[k] < TwoTo64[k] /\ \A j \in (k + 1)..8 : d[j] = TwoTo64[j]

Limb == 2 ^ 16

U64Zero == <<0, 0, 0, 0>>

\* WrappingMulAdd that stays at u64::MAX once the value passes it
SaturatingMulAdd(hash, k, byte) ==
    LET p0 == hash[1] * k + byte
        p1 == hash[2] * k + (p0 \div Limb)
        p2 == hash[3] * k + (p1 \div Limb)
        p3 == hash[4] * k + (p2 \div Limb)
    IN  IF p3 \div Limb > 0
        THEN <<Limb - 1, Limb - 1, Limb - 1, Limb - 1>>
        ELSE <<p0 % Limb, p1 % Limb, p2 % Limb, p3 % Limb>>

\* hash.wrapping_mul(k).wrapping_add(byte) on a u64 held as limbs, for k < 2^14.
WrappingMulAdd(hash, k, byte) ==
    LET p0 == hash[1] * k + byte
        p1 == hash[2] * k + (p0 \div Limb)
        p2 == hash[3] * k + (p1 \div Limb)
        p3 == hash[4] * k + (p2 \div Limb)
    IN  <<p0 % Limb, p1 % Limb, p2 % Limb, p3 % Limb>>

(***************************************************************************)
(* file_utils.rs: is_binary.  A file of the model is a record              *)
(*   [opens |-> whether File::open succeeds,                               *)
(*    reads |-> whether reading from the opened file succeeds,             *)
(*    bytes |-> its content].                                              *)
(* A Result is Ok(v) or Err, the std::io::Error of a failed open or read.  *)
(***************************************************************************)
Ok(v) == [ok |-> TRUE, val |-> v]
Err == [ok |-> FALSE]

SniffLen == 512

\* buffer[..bytes_read].iter().filter(|&&b| b == 0).count()
CountNul(bytes, n) == Cardinality({i \in 1..n : bytes[i] = 0})

is_binary(file) ==
    IF ~file.opens \/ ~file.reads THEN Err
    ELSE LET bytes_read == Min(SniffLen, Len(file.bytes))
         IN  IF bytes_read = 0 THEN Ok(FALSE)
             ELSE Ok(CountNul(file.bytes, bytes_read) > bytes_read \div 100)

(***************************************************************************)
(* analysis.rs: normalize_line and read_normalized_content.                *)
(***************************************************************************)
\* char::is_whitespace on the ASCII range: tab, LF, VT, FF, CR, space.
IsWhitespace(b) == b \in {9, 10, 11, 12, 13, 32}

\* str::trim: the whitespace before the first and after the last other character goes
Trim(s) ==
    LET kept == {i \in 1..Len(s) : ~IsWhitespace(s[i])}
    IN  IF kept = {} THEN <<>>
        ELSE SubSeq(s, CHOOSE i \in kept : \A j \in kept : i <= j,
                       CHOOSE i \in kept : \A j \in kept : j <= i)

\* str::replace(chars, ""): every character of `set` is removed
RemoveChars(s, set) == SelectSeq(s, LAMBDA c : c \notin set)

\* str::replace("xy", ""): the matches of the two-character pattern are found from
\* left to right, the search going on after each match, and are removed.  The
\* fold's state: the output so far, and whether the next character is the second
\* character of a match.
RemovePair(s, x, y) ==
    FoldRange(LAMBDA st, i :
                  IF st.skip THEN [out |-> st.out, skip |-> FALSE]
                  ELSE IF i < Len(s) /\ s[i] = x /\ s[i + 1] = y
                       THEN [out |-> st.out, skip |-> TRUE]
                       ELSE [out |-> Append(st.out, s[i]), skip |-> FALSE],
              1, Len(s), [out |-> <<>>, skip |-> FALSE]).out

\* str::to_lowercase on the ASCII range.
\* ToLowercase left out
KeepsCase(s) == s

ToLowercase(s) == [i \in 1..Len(s) |-> IF s[i] \in 65..90 THEN s[i] + 32 ELSE s[i]]

\* normalize_line without `.replace('#', "")`
NormalizeLineKeepsHash(line) ==
    ToLowercase(RemovePair(RemovePair(RemovePair(RemoveChars(Trim(line), {32, 9}),
                                                 47, 47), 47, 42), 42, 47))

\* normalize_line with trim_start for trim and the spaces and tabs left in
NormalizeLineKeepsSpaces(line) ==
    LET lead == {i \in 1..Len(line) : \A j \in 1..i : IsWhitespace(line[j])}
        trimmed == SubSeq(line, Cardinality(lead) + 1, Len(line))
    IN  ToLowercase(RemoveChars(RemovePair(RemovePair(RemovePair(trimmed,
                                                   47, 47), 47, 42), 42, 47), {35}))

normalize_line(line) ==
    ToLowercase(
      RemoveChars(
        RemovePair(
          RemovePair(
            RemovePair(
              RemoveChars(Trim(line), {32, 9}),
              47, 47),
            47, 42),
          42, 47),
        {35}))

\* BufRead::lines: the content split at LF, the LF and a CR before it dropped;
\* a final line without LF counts, an empty remainder after the last LF does not.
StripCr(line) ==
    IF line # <<>> /\ line[Len(line)] = 13 THEN SubSeq(line, 1, Len(line) - 1) ELSE line

Lines(bytes) ==
    LET \* where each line ends: at a line feed, or after the last byte
        ends == {i \in 1..Len(bytes) : bytes[i] = 10}
                \cup (IF bytes # <<>> /\ bytes[Len(bytes)] # 10 THEN {Len(bytes) + 1} ELSE {})
        \* the end of the k-th line
        End(k) == CHOOSE e \in ends : Cardinality({j \in ends : j < e}) = k - 1
        From(k) == IF k = 1 THEN 1 ELSE End(k - 1) + 1
    IN  [k \in 1..Cardinality(ends) |->
            IF End(k) > Len(bytes) THEN SubSeq(bytes, From(k), Len(bytes))
            ELSE StripCr(SubSeq(bytes, From(k), End(k) - 1))]

\* A line is handed out as a String only when it is valid UTF-8.  The files of
\* the model hold ASCII and the byte 255, which no UTF-8 text contains.
Utf8Valid(line) == \A i \in 1..Len(line) : line[i] < 128

\* NormalizeLines with the newline pushed between the lines, not after each
NormalizeLinesJoined(lines) ==
    FoldRange(LAMBDA acc, i :
                  IF ~acc.ok THEN acc
                  ELSE IF ~Utf8Valid(lines[i]) THEN Err
                  ELSE LET cleaned == normalize_line(lines[i])
                       IN  IF cleaned = <<>> THEN acc
                           ELSE IF acc.val = <<>> THEN Ok(cleaned)
                           ELSE Ok(acc.val \o <<10>> \o cleaned),
              1, Len(lines), Ok(<<>>))

\* NormalizeLines with the lines that cannot be read left out instead of failing
\* the read (`reader.lines().flatten()`)
NormalizeLinesLossy(lines) ==
    FoldRange(LAMBDA acc, i :
                  IF ~Utf8Valid(lines[i]) THEN acc
                  ELSE LET cleaned == normalize_line(lines[i])
                       IN  IF cleaned # <<>>
                           THEN Ok(acc.val \o cleaned \o <<10>>)
                           ELSE acc,
              1, Len(lines), Ok(<<>>))

\* the loop of read_normalized_content: Ok(normalized) as long as every line so
\* far was read, Err from the first line that was not (`let line = line?`)
NormalizeLines(lines) ==
    FoldRange(LAMBDA acc, i :
                  IF ~acc.ok THEN acc
                  ELSE IF ~Utf8Valid(lines[i]) THEN Err
                  ELSE LET cleaned == normalize_line(lines[i])
                       IN  IF cleaned # <<>>
                           THEN Ok(acc.val \o cleaned \o <<10>>)
                           ELSE acc,
              1, Len(lines), Ok(<<>>))

read_normalized_content(file) ==
    IF ~file.opens \/ ~file.reads THEN Err
    ELSE NormalizeLines(Lines(file.bytes))

(***************************************************************************)
(* analysis.rs: extract_chunks, fast_pow, simple_hash.                     *)
(***************************************************************************)
\* a window of half the size
HalfWindow == 32 \div 2

window_size == 32
base == 257
modulus == 1000000007
MinChunk == 20
GearMask == 255

RECURSIVE FastPowLoop(_, _, _, _)
\* the `while e > 0` loop
FastPowLoop(result, b, e, m) ==
    IF e > 0
    THEN Eager(IF e % 2 = 1 THEN MulMod(result, b, m) ELSE result,
               LAMBDA result2 :
                   Eager(MulMod(b, b, m),
                         LAMBDA b2 : FastPowLoop(result2, b2, e \div 2, m)))
    ELSE result

fast_pow(b, exp, m) == FastPowLoop(1, b % m, exp, m)

RECURSIVE FastPowRounds(_, _, _, _)
\* the <<result, b, e>> at the head of every round of the `while e > 0` loop
FastPowRounds(result, b, e, m) ==
    IF e > 0
    THEN <<<<result, b, e>>>>
         \o FastPowRounds(IF e % 2 = 1 THEN MulMod(result, b, m) ELSE result,
                          MulMod(b, b, m), e \div 2, m)
    ELSE <<>>

simple_hash(bytes) ==
    FoldRange(LAMBDA hash, i : WrappingMulAdd(hash, 31, bytes[i]), 1, Len(bytes), U64Zero)

\* "Calculate initial hash": the rolling hash after n rounds of the loop over 0..window_size
InitialHashAfter(bytes, n) ==
    FoldRange(LAMBDA rolling_hash, i :
                  (MulMod(base, rolling_hash, modulus) + At(bytes, i)) % modulus,
              0, n - 1, 0)

\* "Calculate initial hash": the loop over 0..window_size
InitialHash(bytes) == InitialHashAfter(bytes, window_size)

\* power with the exponent window_size
PowerOfWindow == fast_pow(base, window_size, modulus)

\* the power of the leaving byte, computed in every round of the loop from the same arguments
power == fast_pow(base, window_size - 1, modulus)

\* Minuend without the modulus added
MinuendBare(rolling_hash) == rolling_hash

\* `rolling_hash + modulus`, from which the leaving byte's share is taken
Minuend(rolling_hash) == rolling_hash + modulus

\* `(u64::from(bytes[i - window_size]) * power) % modulus`
LeavingShare(bytes, i) == MulMod(At(bytes, i - window_size), power, modulus)

\* the rolling hash with the leftmost byte removed (lines 358-360)
Removed(bytes, i, rolling_hash) ==
    (Minuend(rolling_hash) - LeavingShare(bytes, i)) % modulus

\* one slide of the window: the leftmost byte leaves, bytes[i] enters
RollStep(bytes, i, rolling_hash) ==
    LET removed == Removed(bytes, i, rolling_hash)
    IN  (MulMod(base, removed, modulus) + At(bytes, i)) % modulus

\* IsGear on the low four bits
IsGearNibble(rolling_hash) == rolling_hash % 16 = 0

\* rolling_hash & 0xFF == 0
IsGear(rolling_hash) == rolling_hash % (GearMask + 1) = 0

\* "Roll the hash and find gear pattern": the loop over window_size..bytes.len(),
\* its state the rolling hash and the boundaries pushed so far
RollLoop(bytes) ==
    FoldRange(LAMBDA st, i :
                  [rolling_hash |-> RollStep(bytes, i, st.rolling_hash),
                   boundaries |-> IF IsGear(st.rolling_hash)
                                  THEN Append(st.boundaries, i - window_size)
                                  ELSE st.boundaries],
              window_size, Len(bytes) - 1,
              [rolling_hash |-> InitialHash(bytes), boundaries |-> <<>>])

Boundaries(bytes) == RollLoop(bytes).boundaries

\* EmitsChunk without the minimum chunk size
EmitsAnySpan(start, boundary) == boundary > start

\* EmitsChunk with twice the minimum chunk size
EmitsLongSpan(start, boundary) == boundary > start /\ boundary - start >= 2 * MinChunk

\* whether the span start..boundary is emitted as a chunk
EmitsChunk(start, boundary) == boundary > start /\ boundary - start >= MinChunk

\* NextStart with `start = boundary` moved inside the `if`: a boundary that emits
\* no chunk is skipped and its span merged into the next one
NextStartMerging(start, boundary) ==
    IF boundary > start /\ boundary - start >= MinChunk THEN boundary ELSE start

\* where the next span starts once `boundary` has been handled
NextStart(start, boundary) == boundary

RECURSIVE SpansLoop(_, _, _, _)
\* "Create chunks from boundaries": the spans <<start, end>> that become chunks
SpansLoop(boundaries, k, start, spans) ==
    IF k > Len(boundaries) THEN <<start, spans>>
    ELSE SpansLoop(boundaries, k + 1, NextStart(start, boundaries[k]),
                   IF EmitsChunk(start, boundaries[k])
                   THEN Append(spans, <<start, boundaries[k]>>)
                   ELSE spans)

\* the 0-based spans [start, end) of the content that extract_chunks fingerprints, in order
ChunkSpans(bytes) ==
    IF Len(bytes) < window_size THEN <<>>
    ELSE LET r == SpansLoop(Boundaries(bytes), 1, 0, <<>>)
             start == r[1]
             spans == r[2]
         IN  IF EmitsChunk(start, Len(bytes))
             THEN Append(spans, <<start, Len(bytes)>>)
             ELSE spans

\* extract_chunks hashing &bytes[..boundary] instead of &bytes[start..boundary]
ExtractChunksFromZero(bytes) ==
    LET spans == ChunkSpans(bytes)
    IN  [k \in 1..Len(spans) |-> simple_hash(Slice(bytes, 0, spans[k][2]))]

extract_chunks(bytes) ==
    LET spans == ChunkSpans(bytes)
    IN  [k \in 1..Len(spans) |-> simple_hash(Slice(bytes, spans[k][1], spans[k][2]))]

(***************************************************************************)
(* The files the scorer is run on.  Each comment shows the file's text.    *)
(***************************************************************************)
\* plain.rs
\*   | mutmut*isomesome7
\*   | ;zi,elsetmp3
\*   | whilevec7setelse42{
\*   | somereturnnonestr>(
\*   | :=37fnpop;idx
\*   | sumsomeinmatch
PlainRs ==
    << 109, 117, 116, 109, 117, 116, 42, 105, 115, 111, 109, 101, 115, 111, 109, 101, 55, 10, 59, 122,
       105, 44, 101, 108, 115, 101, 116, 109, 112, 51, 10, 119, 104, 105, 108, 101, 118, 101, 99, 55,
       115, 101, 116, 101, 108, 115, 101, 52, 50, 123, 10, 115, 111, 109, 101, 114, 101, 116, 117, 114,
       110, 110, 111, 110, 101, 115, 116, 114, 62, 40, 10, 58, 61, 51, 55, 102, 110, 112, 111, 112,
       59, 105, 100, 120, 10, 115, 117, 109, 115, 111, 109, 101, 105, 110, 109, 97, 116, 99, 104, 10>>

\* plain_fmt.rs
\*   |     MUTMUT*ISOMESOME7
\*   | 
\*   | <TAB>// ;zi,elsetmp3  
\*   | while vec7setelse42{<CR>
\*   |   <TAB> 
\*   | /* somereturnnonestr>( */
\*   | # :=37fnpop;idx
\*   | sum<TAB>SOMEINMATCH
PlainFmtRs ==
    << 32, 32, 32, 32, 77, 85, 84, 77, 85, 84, 42, 73, 83, 79, 77, 69, 83, 79, 77, 69,
       55, 10, 10, 9, 47, 47, 32, 59, 122, 105, 44, 101, 108, 115, 101, 116, 109, 112, 51, 32,
       32, 10, 119, 104, 105, 108, 101, 32, 118, 101, 99, 55, 115, 101, 116, 101, 108, 115, 101, 52,
       50, 123, 13, 10, 32, 32, 9, 32, 10, 47, 42, 32, 115, 111, 109, 101, 114, 101, 116, 117,
       114, 110, 110, 111, 110, 101, 115, 116, 114, 62, 40, 32, 42, 47, 10, 35, 32, 58, 61, 51,
       55, 102, 110, 112, 111, 112, 59, 105, 100, 120, 10, 115, 117, 109, 9, 83, 79, 77, 69, 73,
       78, 77, 65, 84, 67, 72, 10>>

\* tiny.rs
\*   | mutmut*isomesome7
\*   | ;zi,elsetmp3
\*   | whilevec7setelse42{
\*   | somereturnnonestr>(
\*   | :=37fnpop;idx
\*   | sumsomeinmatc
TinyRs ==
    << 109, 117, 116, 109, 117, 116, 42, 105, 115, 111, 109, 101, 115, 111, 109, 101, 55, 10, 59, 122,
       105, 44, 101, 108, 115, 101, 116, 109, 112, 51, 10, 119, 104, 105, 108, 101, 118, 101, 99, 55,
       115, 101, 116, 101, 108, 115, 101, 52, 50, 123, 10, 115, 111, 109, 101, 114, 101, 116, 117, 114,
       110, 110, 111, 110, 101, 115, 116, 114, 62, 40, 10, 58, 61, 51, 55, 102, 110, 112, 111, 112,
       59, 105, 100, 120, 10, 115, 117, 109, 115, 111, 109, 101, 105, 110, 109, 97, 116, 99, 10>>

\* tiny_copy.rs
\*   |   mutmut*isomesome7
\*   | ;zi,elsetmp3
\*   | whilevec7setelse42{
\*   | somereturnnonestr>(
\*   | :=37fnpop;idx
\*   | sumsomeinmatc
TinyCopyRs ==
    << 32, 32, 109, 117, 116, 109, 117, 116, 42, 105, 115, 111, 109, 101, 115, 111, 109, 101, 55, 10,
       59, 122, 105, 44, 101, 108, 115, 101, 116, 109, 112, 51, 10, 119, 104, 105, 108, 101, 118, 101,
       99, 55, 115, 101, 116, 101, 108, 115, 101, 52, 50, 123, 10, 115, 111, 109, 101, 114, 101, 116,
       117, 114, 110, 110, 111, 110, 101, 115, 116, 114, 62, 40, 10, 58, 61, 51, 55, 102, 110, 112,
       111, 112, 59, 105, 100, 120, 10, 115, 117, 109, 115, 111, 109, 101, 105, 110, 109, 97, 116, 99,
       10>>

\* wrapped.rs
\*   | ]none[3,ok
\*   | mutmut*isomesome7
\*   | ;zi,elsetmp3
\*   | whilevec7setelse42{
\*   | somereturnnonestr>(
\*   | :=37fnpop;idx
\*   | sumsomeinmatch
\*   | map[acounttotal:
WrappedRs ==
    << 93, 110, 111, 110, 101, 91, 51, 44, 111, 107, 10, 109, 117, 116, 109, 117, 116, 42, 105, 115,
       111, 109, 101, 115, 111, 109, 101, 55, 10, 59, 122, 105, 44, 101, 108, 115, 101, 116, 109, 112,
       51, 10, 119, 104, 105, 108, 101, 118, 101, 99, 55, 115, 101, 116, 101, 108, 115, 101, 52, 50,
       123, 10, 115, 111, 109, 101, 114, 101, 116, 117, 114, 110, 110, 111, 110, 101, 115, 116, 114, 62,
       40, 10, 58, 61, 51, 55, 102, 110, 112, 111, 112, 59, 105, 100, 120, 10, 115, 117, 109, 115,
       111, 109, 101, 105, 110, 109, 97, 116, 99, 104, 10, 109, 97, 112, 91, 97, 99, 111, 117, 110,
       116, 116, 111, 116, 97, 108, 58, 10>>

\* gear.rs
\*   | >=;zletreturni42
\*   | letpushletelse
\*   | self11ifiisomez
\*   | <bufstrifymatchfor
\*   | ,ierrlenyidxifval
\*   | return;in{=
\*   | -[getbuffnvec
GearRs ==
    << 62, 61, 59, 122, 108, 101, 116, 114, 101, 116, 117, 114, 110, 105, 52, 50, 10, 108, 101, 116,
       112, 117, 115, 104, 108, 101, 116, 101, 108, 115, 101, 10, 115, 101, 108, 102, 49, 49, 105, 102,
       105, 105, 115, 111, 109, 101, 122, 10, 60, 98, 117, 102, 115, 116, 114, 105, 102, 121, 109, 97,
       116, 99, 104, 102, 111, 114, 10, 44, 105, 101, 114, 114, 108, 101, 110, 121, 105, 100, 120, 105,
       102, 118, 97, 108, 10, 114, 101, 116, 117, 114, 110, 59, 105, 110, 123, 61, 10, 45, 91, 103,
       101, 116, 98, 117, 102, 102, 110, 118, 101, 99, 10>>

\* gear_in.rs
\*   | err=c.totalimatch
\*   | >=;zletreturni42
\*   | letpushletelse
\*   | self11ifiisomez
\*   | <bufstrifymatchfor
\*   | ,ierrlenyidxifval
\*   | return;in{=
\*   | -[getbuffnvec
\*   | =fnbin7match+}
GearInRs ==
    << 101, 114, 114, 61, 99, 46, 116, 111, 116, 97, 108, 105, 109, 97, 116, 99, 104, 10, 62, 61,
       59, 122, 108, 101, 116, 114, 101, 116, 117, 114, 110, 105, 52, 50, 10, 108, 101, 116, 112, 117,
       115, 104, 108, 101, 116, 101, 108, 115, 101, 10, 115, 101, 108, 102, 49, 49, 105, 102, 105, 105,
       115, 111, 109, 101, 122, 10, 60, 98, 117, 102, 115, 116, 114, 105, 102, 121, 109, 97, 116, 99,
       104, 102, 111, 114, 10, 44, 105, 101, 114, 114, 108, 101, 110, 121, 105, 100, 120, 105, 102, 118,
       97, 108, 10, 114, 101, 116, 117, 114, 110, 59, 105, 110, 123, 61, 10, 45, 91, 103, 101, 116,
       98, 117, 102, 102, 110, 118, 101, 99, 10, 61, 102, 110, 98, 105, 110, 55, 109, 97, 116, 99,
       104, 43, 125, 10>>

\* repeat.rs
\*   | 0muttotalnonewhilemutcount
\*   | 0muttotalnonewhilemutcount
\*   | 0muttotalnonewhilemutcount
\*   | 0muttotalnonewhilemutcount
\*   | 0muttotalnonewhilemutcount
RepeatRs ==
    << 48, 109, 117, 116, 116, 111, 116, 97, 108, 110, 111, 110, 101, 119, 104, 105, 108, 101, 109, 117,
       116, 99, 111, 117, 110, 116, 10, 48, 109, 117, 116, 116, 111, 116, 97, 108, 110, 111, 110, 101,
       119, 104, 105, 108, 101, 109, 117, 116, 99, 111, 117, 110, 116, 10, 48, 109, 117, 116, 116, 111,
       116, 97, 108, 110, 111, 110, 101, 119, 104, 105, 108, 101, 109, 117, 116, 99, 111, 117, 110, 116,
       10, 48, 109, 117, 116, 116, 111, 116, 97, 108, 110, 111, 110, 101, 119, 104, 105, 108, 101, 109,
       117, 116, 99, 111, 117, 110, 116, 10, 48, 109, 117, 116, 116, 111, 116, 97, 108, 110, 111, 110,
       101, 119, 104, 105, 108, 101, 109, 117, 116, 99, 111, 117, 110, 116, 10>>

\* repeat_more.rs
\*   | 0muttotalnonewhilemutcount
\*   | 0muttotalnonewhilemutcount
\*   | 0muttotalnonewhilemutcount
\*   | 0muttotalnonewhilemutcount
\*   | 0muttotalnonewhilemutcount
\*   | 0muttotalnonewhilemutcount
RepeatMoreRs ==
    << 48, 109, 117, 116, 116, 111, 116, 97, 108, 110, 111, 110, 101, 119, 104, 105, 108, 101, 109, 117,
       116, 99, 111, 117, 110, 116, 10, 48, 109, 117, 116, 116, 111, 116, 97, 108, 110, 111, 110, 101,
       119, 104, 105, 108, 101, 109, 117, 116, 99, 111, 117, 110, 116, 10, 48, 109, 117, 116, 116, 111,
       116, 97, 108, 110, 111, 110, 101, 119, 104, 105, 108, 101, 109, 117, 116, 99, 111, 117, 110, 116,
       10, 48, 109, 117, 116, 116, 111, 116, 97, 108, 110, 111, 110, 101, 119, 104, 105, 108, 101, 109,
       117, 116, 99, 111, 117, 110, 116, 10, 48, 109, 117, 116, 116, 111, 116, 97, 108, 110, 111, 110,
       101, 119, 104, 105, 108, 101, 109, 117, 116, 99, 111, 117, 110, 116, 10, 48, 109, 117, 116, 116,
       111, 116, 97, 108, 110, 111, 110, 101, 119, 104, 105, 108, 101, 109, 117, 116, 99, 111, 117, 110,
       116, 10>>

\* repeat_mid.rs
\*   | inwhileysome=count,*
\*   | 0muttotalnonewhilemutcount
\*   | 0muttotalnonewhilemutcount
\*   | 0muttotalnonewhilemutcount
\*   | total*nonecountmatchmap
RepeatMidRs ==
    << 105, 110, 119, 104, 105, 108, 101, 121, 115, 111, 109, 101, 61, 99, 111, 117, 110, 116, 44, 42,
       10, 48, 109, 117, 116, 116, 111, 116, 97, 108, 110, 111, 110, 101, 119, 104, 105, 108, 101, 109,
       117, 116, 99, 111, 117, 110, 116, 10, 48, 109, 117, 116, 116, 111, 116, 97, 108, 110, 111, 110,
       101, 119, 104, 105, 108, 101, 109, 117, 116, 99, 111, 117, 110, 116, 10, 48, 109, 117, 116, 116,
       111, 116, 97, 108, 110, 111, 110, 101, 119, 104, 105, 108, 101, 109, 117, 116, 99, 111, 117, 110,
       116, 10, 116, 111, 116, 97, 108, 42, 110, 111, 110, 101, 99, 111, 117, 110, 116, 109, 97, 116,
       99, 104, 109, 97, 112, 10>>

\* short.rs
\*   | i,vecidxb3>len
\*   | i,vecidxb3>len
\*   | i,vecidxb3>len
\*   | i,vecidxb3>len
\*   | i,vecidxb3>len
\*   | i,vecidxb3>len
\*   | i,vecidxb3>len
\*   | i,vecidxb3>len
\*   | i,vecidxb3>len
ShortRs ==
    << 105, 44, 118, 101, 99, 105, 100, 120, 98, 51, 62, 108, 101, 110, 10, 105, 44, 118, 101, 99,
       105, 100, 120, 98, 51, 62, 108, 101, 110, 10, 105, 44, 118, 101, 99, 105, 100, 120, 98, 51,
       62, 108, 101, 110, 10, 105, 44, 118, 101, 99, 105, 100, 120, 98, 51, 62, 108, 101, 110, 10,
       105, 44, 118, 101, 99, 105, 100, 120, 98, 51, 62, 108, 101, 110, 10, 105, 44, 118, 101, 99,
       105, 100, 120, 98, 51, 62, 108, 101, 110, 10, 105, 44, 118, 101, 99, 105, 100, 120, 98, 51,
       62, 108, 101, 110, 10, 105, 44, 118, 101, 99, 105, 100, 120, 98, 51, 62, 108, 101, 110, 10,
       105, 44, 118, 101, 99, 105, 100, 120, 98, 51, 62, 108, 101, 110, 10>>

\* mixed.rs
\*   | =nonefor
\*   | whilefnselfpushmaplet
\*   | ),idxreturntotalstr]y
\*   | *y*idx<bfor*
\*   | letselfkfn7
\*   | str,return7}getin(
\*   | 7bufstr:sometmp
\*   | [totalletin1map*
MixedRs ==
    << 61, 110, 111, 110, 101, 102, 111, 114, 10, 119, 104, 105, 108, 101, 102, 110, 115, 101, 108, 102,
       112, 117, 115, 104, 109, 97, 112, 108, 101, 116, 10, 41, 44, 105, 100, 120, 114, 101, 116, 117,
       114, 110, 116, 111, 116, 97, 108, 115, 116, 114, 93, 121, 10, 42, 121, 42, 105, 100, 120, 60,
       98, 102, 111, 114, 42, 10, 108, 101, 116, 115, 101, 108, 102, 107, 102, 110, 55, 10, 115, 116,
       114, 44, 114, 101, 116, 117, 114, 110, 55, 125, 103, 101, 116, 105, 110, 40, 10, 55, 98, 117,
       102, 115, 116, 114, 58, 115, 111, 109, 101, 116, 109, 112, 10, 91, 116, 111, 116, 97, 108, 108,
       101, 116, 105, 110, 49, 109, 97, 112, 42, 10>>

\* binary.bin
\*   | >=;zletreturni42
\*   | letpushletelse
\*   | self11ifiisomez
\*   | <bufstrifymatchfor
\*   | ,ierrlenyidxifval
\*   | return;in{=
\*   | -[getbuffnvec
\*   | <NUL><NUL><NUL>
BinaryBin ==
    << 62, 61, 59, 122, 108, 101, 116, 114, 101, 116, 117, 114, 110, 105, 52, 50, 10, 108, 101, 116,
       112, 117, 115, 104, 108, 101, 116, 101, 108, 115, 101, 10, 115, 101, 108, 102, 49, 49, 105, 102,
       105, 105, 115, 111, 109, 101, 122, 10, 60, 98, 117, 102, 115, 116, 114, 105, 102, 121, 109, 97,
       116, 99, 104, 102, 111, 114, 10, 44, 105, 101, 114, 114, 108, 101, 110, 121, 105, 100, 120, 105,
       102, 118, 97, 108, 10, 114, 101, 116, 117, 114, 110, 59, 105, 110, 123, 61, 10, 45, 91, 103,
       101, 116, 98, 117, 102, 102, 110, 118, 101, 99, 10, 0, 0, 0, 10>>

\* bad_utf8.rs
\*   | >=;zletreturni42
\*   | letpushletelse
\*   | self11ifiisomez
\*   | <bufstrifymatchfor
\*   | ,ierrlenyidxifval
\*   | return;in{=
\*   | -[getbuffnvec
\*   | caf<FF>
\*   | mutmut*isomesome7
BadUtf8Rs ==
    << 62, 61, 59, 122, 108, 101, 116, 114, 101, 116, 117, 114, 110, 105, 52, 50, 10, 108, 101, 116,
       112, 117, 115, 104, 108, 101, 116, 101, 108, 115, 101, 10, 115, 101, 108, 102, 49, 49, 105, 102,
       105, 105, 115, 111, 109, 101, 122, 10, 60, 98, 117, 102, 115, 116, 114, 105, 102, 121, 109, 97,
       116, 99, 104, 102, 111, 114, 10, 44, 105, 101, 114, 114, 108, 101, 110, 121, 105, 100, 120, 105,
       102, 118, 97, 108, 10, 114, 101, 116, 117, 114, 110, 59, 105, 110, 123, 61, 10, 45, 91, 103,
       101, 116, 98, 117, 102, 102, 110, 118, 101, 99, 10, 99, 97, 102, 255, 10, 109, 117, 116, 109,
       117, 116, 42, 105, 115, 111, 109, 101, 115, 111, 109, 101, 55, 10>>

TextFile(bytes) == [opens |-> TRUE, reads |-> TRUE, bytes |-> bytes]

\* the file system: what is found under each path
FileSystem ==
    [plain       |-> TextFile(PlainRs),
     plain_fmt   |-> TextFile(PlainFmtRs),
     tiny        |-> TextFile(TinyRs),
     tiny_copy   |-> TextFile(TinyCopyRs),
     wrapped     |-> TextFile(WrappedRs),
     gear        |-> TextFile(GearRs),
     gear_in     |-> TextFile(GearInRs),
     repeat      |-> TextFile(RepeatRs),
     repeat_more |-> TextFile(RepeatMoreRs),
     repeat_mid  |-> TextFile(RepeatMidRs),
     short       |-> TextFile(ShortRs),
     mixed       |-> TextFile(MixedRs),
     binary      |-> TextFile(BinaryBin),
     bad_utf8    |-> TextFile(BadUtf8Rs),
     empty       |-> TextFile(<<>>),
     \* a path that cannot be opened (no such file, no permission)
     missing     |-> [opens |-> FALSE, reads |-> FALSE, bytes |-> <<>>],
     \* a path that opens and whose reads fail (a directory)
     locked      |-> [opens |-> TRUE, reads |-> FALSE, bytes |-> <<>>]]

Paths == DOMAIN FileSystem

\* the longest all_files list of the model
MaxFiles == 2

RECURSIVE SeqsUpTo(_, _)
SeqsUpTo(S, n) ==
    IF n = 0 THEN {<<>>}
    ELSE LET shorter == SeqsUpTo(S, n - 1)
         IN  shorter \cup {Append(s, x) : s \in shorter, x \in S}

Range(s) == {s[i] : i \in 1..Len(s)}

(***************************************************************************)
(* What the calls return on each path of the file system.  A file does not *)
(* change while it is scored, so each is computed once.                    *)
(***************************************************************************)
\* is_binary(path)
IsBinaryAt == [p \in Paths |-> is_binary(FileSystem[p])]

\* read_normalized_content(path)
NormalizedAt == [p \in Paths |-> read_normalized_content(FileSystem[p])]

\* extract_chunks(&content) of the content read from path, where it can be read
ChunksAt ==
    [p \in Paths |-> IF NormalizedAt[p].ok THEN extract_chunks(NormalizedAt[p].val) ELSE <<>>]

\* the boundaries the rolling hash finds in the content read from path
BoundariesAt ==
    [p \in Paths |-> IF NormalizedAt[p].ok /\ Len(NormalizedAt[p].val) >= window_size
                     THEN Boundaries(NormalizedAt[p].val)
                     ELSE <<>>]

\* the spans of the content read from path that become chunks
SpansAt ==
    [p \in Paths |-> IF NormalizedAt[p].ok THEN ChunkSpans(NormalizedAt[p].val) ELSE <<>>]

(***************************************************************************)
(* analysis.rs: calculate_duplication_percentage.                          *)
(***************************************************************************)
MinContent == 100

\* TooSmall with `<=` for `<`
TooSmallOffByOne(content) == Len(content) <= MinContent

\* target_content.len() < 100
TooSmall(content) == Len(content) < MinContent

\* SkipsAsBinary with the test negated
SkipsTextFiles(bin) == IF bin.ok THEN ~bin.val ELSE TRUE

\* SkipsAsBinary that skips only the files that cannot be classified
SkipsOnlyOnError(bin) == ~bin.ok

\* is_binary(other_path).unwrap_or(true)
SkipsAsBinary(bin) == IF bin.ok THEN bin.val ELSE TRUE

\* IndexFile without `other_path == target_path`
IndexFileWithSelf(chunks, other_path, target) ==
    IF IsBinaryAt[other_path].ok /\ ~IsBinaryAt[other_path].val
       /\ NormalizedAt[other_path].ok
    THEN chunks \cup Range(ChunksAt[other_path])
    ELSE chunks

\* IndexFile with the index replaced by the file's fingerprints, not extended by them
IndexFileLast(chunks, other_path, target) ==
    IF other_path = target \/ SkipsAsBinary(IsBinaryAt[other_path])
    THEN chunks
    ELSE LET other_content == NormalizedAt[other_path]
         IN  IF other_content.ok
             THEN Range(ChunksAt[other_path])
             ELSE chunks

\* the body of `for other_path in all_files`: the index after other_path
IndexFile(chunks, other_path, target) ==
    IF other_path = target \/ SkipsAsBinary(IsBinaryAt[other_path])
    THEN chunks
    ELSE LET other_content == NormalizedAt[other_path]
         IN  IF other_content.ok
             THEN chunks \cup Range(ChunksAt[other_path])
             ELSE chunks

\* DuplicateChunks counting each fingerprint once
DuplicateChunksDistinct(chunks, index) == Cardinality(Range(chunks) \cap index)

\* DuplicateChunks counting the fingerprints the index does not hold
DuplicateChunksMissed(chunks, index) ==
    Cardinality({k \in 1..Len(chunks) : chunks[k] \notin index})

\* target_chunks.iter().filter(|chunk| all_chunks.contains(*chunk)).count()
DuplicateChunks(chunks, index) ==
    Cardinality({k \in 1..Len(chunks) : chunks[k] \in index})

\* Quotient over the distinct fingerprints of the target
QuotientOverDistinct(duplicate_chunks, chunks) ==
    IF chunks = <<>> THEN 0
    ELSE (duplicate_chunks * 100) \div Cardinality(Range(chunks))

\* lines 293-297: duplication_percentage before `.min(100)`
Quotient(duplicate_chunks, chunks) ==
    IF chunks = <<>> THEN 0
    ELSE (duplicate_chunks * 100) \div Len(chunks)

\* Percentage over the distinct fingerprints of the target, and not clamped
PercentageOverDistinct(duplicate_chunks, chunks) ==
    IF chunks = <<>> THEN 0
    ELSE (duplicate_chunks * 100) \div Cardinality(Range(chunks))

\* Percentage rounded up
PercentageRoundedUp(duplicate_chunks, chunks) ==
    IF chunks = <<>> THEN 0
    ELSE Min((duplicate_chunks * 100 + Len(chunks) - 1) \div Len(chunks), 100)

\* lines 293-299
Percentage(duplicate_chunks, chunks) ==
    LET duplication_percentage == Quotient(duplicate_chunks, chunks)
    IN  Min(duplication_percentage, 100)

\* the whole call as a function of its arguments
calculate_duplication_percentage(target, files) ==
    LET bin == IsBinaryAt[target]
        target_content == NormalizedAt[target]
        chunks == ChunksAt[target]
        index == FoldRange(LAMBDA acc, i : IndexFile(acc, files[i], target),
                           1, Len(files), {})
    IN  IF ~bin.ok THEN Err
        ELSE IF bin.val THEN Ok(0)
        ELSE IF ~target_content.ok THEN Err
        ELSE IF TooSmall(target_content.val) THEN Ok(0)
        ELSE IF chunks = <<>> THEN Ok(0)
        ELSE Ok(Percentage(DuplicateChunks(chunks, index), chunks))

(***************************************************************************)
(* One call of calculate_duplication_percentage, step by step.             *)
(***************************************************************************)
VARIABLES
    target_path,    \* the file that is scored
    all_files,      \* the corpus list handed to the call
    pc,             \* "start", "index" (the loop over all_files) or "done"
    target_chunks,  \* the target's fingerprints, in order
    all_chunks,     \* the corpus index built so far
    idx,            \* the position of the loop in all_files, from 1
    result,         \* the call's return value, once pc = "done"
    io              \* the file accesses made so far: <<"is_binary" or "read", path>>

\* main.rs: the scoring pass over the walked files (`files.par_iter()`)
VARIABLES
    files,          \* the walked files, shared read-only by the tasks
    task,           \* per position of files: the state of that file's closure call
    running,        \* the positions whose closure call a pool thread is executing
    results         \* the collected vector, once every closure has returned

\* read_normalized_content on a text of its own
VARIABLES
    text,           \* the bytes of the file
    normalized      \* what read_normalized_content returns for it

\* extract_chunks on a content of its own
VARIABLES
    chunk_input,    \* the content handed to extract_chunks
    chunk_output    \* what it returns: [chunks |-> the fingerprints]

\* extract_chunks, step by step
VARIABLES
    ec_bytes,         \* content.as_bytes()
    ec_pc,            \* "entry", "roll", "spans" or "done"
    ec_rolling_hash,  \* rolling_hash
    ec_i,             \* the i of the rolling loop
    ec_boundaries,    \* boundaries
    ec_k,             \* the position of `for &boundary in &boundaries`, from 1
    ec_start,         \* start
    ec_chunks,        \* chunks
    ec_spans          \* the <<start, end>> of the slice behind each entry of chunks

callVars == <<target_path, all_files, pc, target_chunks, all_chunks, idx, result, io>>
passVars == <<files, task, running, results>>
normVars == <<text, normalized>>
extractVars == <<ec_bytes, ec_pc, ec_rolling_hash, ec_i, ec_boundaries, ec_k, ec_start,
                 ec_chunks, ec_spans>>
chunkVars == <<chunk_input, chunk_output, extractVars>>

vars == <<callVars, passVars, normVars, chunkVars>>

\* the value of `result` while the call is running
NoResult == [pending |-> TRUE]

\* the variables of the scoring pass, where no pass is run
NoPass == files = <<>> /\ task = <<>> /\ running = {} /\ results = NoResult

\* the variables of the lone normalization, where none is run
NoNormalize == text = <<>> /\ normalized = NoResult

\* the variables of the lone chunking, where none is run
NoExtract ==
    /\ ec_bytes = <<>> /\ ec_pc = "done" /\ ec_rolling_hash = 0 /\ ec_i = 0
    /\ ec_boundaries = <<>> /\ ec_k = 1 /\ ec_start = 0 /\ ec_chunks = <<>> /\ ec_spans = <<>>

NoChunking == chunk_input = <<>> /\ chunk_output = NoResult /\ NoExtract

Init ==
    /\ NoPass /\ NoNormalize /\ NoChunking
    /\ target_path \in Paths
    /\ all_files \in SeqsUpTo(Paths, MaxFiles)
    /\ pc = "start"
    /\ target_chunks = <<>>
    /\ all_chunks = {}
    /\ idx = 1
    /\ result = NoResult
    /\ io = <<>>

Return(r) ==
    /\ pc' = "done"
    /\ result' = r
    /\ UNCHANGED <<target_chunks, all_chunks, idx>>

\* lines 262-274: the target is classified, read, normalized and chunked
Start ==
    /\ pc = "start"
    /\ UNCHANGED <<target_path, all_files, passVars, normVars, chunkVars>>
    /\ LET bin == IsBinaryAt[target_path]
           target_content == NormalizedAt[target_path]
           chunks == ChunksAt[target_path]
       IN  IF ~bin.ok
           THEN io' = <<<<"is_binary", target_path>>>> /\ Return(Err)
           ELSE IF bin.val
           THEN io' = <<<<"is_binary", target_path>>>> /\ Return(Ok(0))
           ELSE /\ io' = <<<<"is_binary", target_path>>, <<"read", target_path>>>>
                /\ IF ~target_content.ok THEN Return(Err)
                   ELSE IF TooSmall(target_content.val) THEN Return(Ok(0))
                   ELSE IF chunks = <<>> THEN Return(Ok(0))
                   ELSE /\ pc' = "index"
                        /\ target_chunks' = chunks
                        /\ UNCHANGED <<all_chunks, idx, result>>

\* the file accesses of one round of the loop over all_files
IndexAccesses(other_path, target) ==
    IF other_path = target THEN <<>>
    ELSE IF SkipsAsBinary(IsBinaryAt[other_path]) THEN <<<<"is_binary", other_path>>>>
    ELSE <<<<"is_binary", other_path>>, <<"read", other_path>>>>

\* lines 277-286: one round of the loop over all_files
Index ==
    /\ pc = "index"
    /\ idx <= Len(all_files)
    /\ all_chunks' = IndexFile(all_chunks, all_files[idx], target_path)
    /\ idx' = idx + 1
    /\ io' = io \o IndexAccesses(all_files[idx], target_path)
    /\ UNCHANGED <<target_path, all_files, pc, target_chunks, result>>
    /\ UNCHANGED <<passVars, normVars, chunkVars>>

\* lines 288-299: the duplicates are counted and the percentage returned
Finish ==
    /\ pc = "index"
    /\ idx > Len(all_files)
    /\ pc' = "done"
    /\ result' = Ok(Percentage(DuplicateChunks(target_chunks, all_chunks), target_chunks))
    /\ UNCHANGED <<target_path, all_files, target_chunks, all_chunks, idx, io>>
    /\ UNCHANGED <<passVars, normVars, chunkVars>>

Next == Start \/ Index \/ Finish

Spec == Init /\ [][Next]_vars

\* the variables of the single call, where none is run
NoCall ==
    /\ target_path = "" /\ all_files = <<>> /\ pc = "" /\ target_chunks = <<>>
    /\ all_chunks = {} /\ idx = 0 /\ result = NoResult /\ io = <<>>

(***************************************************************************)
(* read_normalized_content on every short text over a small alphabet.      *)
(***************************************************************************)
\* the bytes the texts are made of: / * # space tab A b and line feed
Alphabet == {47, 42, 35, 32, 9, 65, 98, 10}

\* the longest text, in bytes
MaxText == 4

NormInit ==
    /\ NoCall /\ NoPass /\ NoChunking
    /\ text \in SeqsUpTo(Alphabet, MaxText)
    /\ normalized = NoResult

\* the file is read and normalized
Normalize ==
    /\ normalized = NoResult
    /\ normalized' = read_normalized_content(TextFile(text))
    /\ UNCHANGED <<text, callVars, passVars, chunkVars>>

NormNext == Normalize

NormSpec == NormInit /\ [][NormNext]_vars

(***************************************************************************)
(* extract_chunks on the leading bytes of the contents of the file system. *)
(***************************************************************************)
\* the longest content, in bytes
MaxContent == 40

ChunkInit ==
    /\ NoCall /\ NoPass /\ NoNormalize /\ NoExtract
    /\ \E p \in {q \in Paths : NormalizedAt[q].ok} :
           \E n \in 0..Min(MaxContent, Len(NormalizedAt[p].val)) :
               chunk_input = SubSeq(NormalizedAt[p].val, 1, n)
    /\ chunk_output = NoResult

\* the content is chunked
Chunk ==
    /\ chunk_output = NoResult
    /\ chunk_output' = [chunks |-> extract_chunks(chunk_input)]
    /\ UNCHANGED <<chunk_input, extractVars, callVars, passVars, normVars>>

ChunkNext == Chunk

ChunkSpec == ChunkInit /\ [][ChunkNext]_vars

(***************************************************************************)
(* extract_chunks, one loop round at a time, on the contents of the files  *)
(* with up to MaxSkip leading bytes left out, whole or cut at the end of a *)
(* window that makes a boundary or one byte after it, and on a content of  *)
(* the highest code point.                                                 *)
(***************************************************************************)
MaxSkip == 2

\* ten times U+10FFFF (F4 8F BF BF) and a line feed
HighRs ==
    << 244, 143, 191, 191, 244, 143, 191, 191, 244, 143, 191, 191, 244, 143, 191, 191,
       244, 143, 191, 191, 244, 143, 191, 191, 244, 143, 191, 191, 244, 143, 191, 191,
       244, 143, 191, 191, 244, 143, 191, 191, 10>>

\* the contents extract_chunks is run on
\* where the content of the file at path p is cut
Cuts(p) ==
    {Len(NormalizedAt[p].val)} \cup
    UNION {{b + window_size, b + window_size + 1} : b \in Range(BoundariesAt[p])}

Contents ==
    {HighRs} \cup
    UNION {{Slice(NormalizedAt[p].val, skip, end) :
                skip \in 0..Min(MaxSkip, Len(NormalizedAt[p].val)), end \in Cuts(p)} :
           p \in {q \in Paths : NormalizedAt[q].ok}}

ExtractInit ==
    /\ NoCall /\ NoPass /\ NoNormalize
    /\ chunk_input = <<>> /\ chunk_output = NoResult
    /\ ec_bytes \in Contents
    /\ ec_pc = "entry"
    /\ ec_rolling_hash = 0
    /\ ec_i = 0
    /\ ec_boundaries = <<>>
    /\ ec_k = 1
    /\ ec_start = 0
    /\ ec_chunks = <<>>
    /\ ec_spans = <<>>

\* lines 335-337: a content shorter than the window has no chunk
ReturnEmpty ==
    /\ ec_pc = "entry"
    /\ Len(ec_bytes) < window_size
    /\ ec_pc' = "done"
    /\ UNCHANGED <<ec_bytes, ec_rolling_hash, ec_i, ec_boundaries, ec_k, ec_start,
                   ec_chunks, ec_spans>>
    /\ UNCHANGED <<chunk_input, chunk_output, callVars, passVars, normVars>>

\* lines 339-348: the hash of the first window
FirstWindow ==
    /\ ec_pc = "entry"
    /\ Len(ec_bytes) >= window_size
    /\ ec_rolling_hash' = InitialHash(ec_bytes)
    /\ ec_i' = window_size
    /\ ec_pc' = "roll"
    /\ UNCHANGED <<ec_bytes, ec_boundaries, ec_k, ec_start, ec_chunks, ec_spans>>
    /\ UNCHANGED <<chunk_input, chunk_output, callVars, passVars, normVars>>

\* lines 351-362: one round of the rolling loop
Roll ==
    /\ ec_pc = "roll"
    /\ ec_i < Len(ec_bytes)
    /\ ec_boundaries' = IF IsGear(ec_rolling_hash)
                        THEN Append(ec_boundaries, ec_i - window_size)
                        ELSE ec_boundaries
    /\ ec_rolling_hash' = RollStep(ec_bytes, ec_i, ec_rolling_hash)
    /\ ec_i' = ec_i + 1
    /\ UNCHANGED <<ec_bytes, ec_pc, ec_k, ec_start, ec_chunks, ec_spans>>
    /\ UNCHANGED <<chunk_input, chunk_output, callVars, passVars, normVars>>

\* line 365: the rolling loop is over
RollEnd ==
    /\ ec_pc = "roll"
    /\ ec_i >= Len(ec_bytes)
    /\ ec_pc' = "spans"
    /\ ec_start' = 0
    /\ ec_k' = 1
    /\ UNCHANGED <<ec_bytes, ec_rolling_hash, ec_i, ec_boundaries, ec_chunks, ec_spans>>
    /\ UNCHANGED <<chunk_input, chunk_output, callVars, passVars, normVars>>

\* `chunks.push(simple_hash(&bytes[from..to]))`
PushChunk(from, to) ==
    /\ ec_chunks' = Append(ec_chunks, simple_hash(Slice(ec_bytes, from, to)))
    /\ ec_spans' = Append(ec_spans, <<from, to>>)

\* lines 366-373: one round of the loop over the boundaries
Span ==
    /\ ec_pc = "spans"
    /\ ec_k <= Len(ec_boundaries)
    /\ LET boundary == ec_boundaries[ec_k]
       IN  /\ IF EmitsChunk(ec_start, boundary)
              THEN PushChunk(ec_start, boundary)
              ELSE UNCHANGED <<ec_chunks, ec_spans>>
           /\ ec_start' = NextStart(ec_start, boundary)
    /\ ec_k' = ec_k + 1
    /\ UNCHANGED <<ec_bytes, ec_pc, ec_rolling_hash, ec_i, ec_boundaries>>
    /\ UNCHANGED <<chunk_input, chunk_output, callVars, passVars, normVars>>

\* lines 376-382: the last chunk, and the return
LastChunk ==
    /\ ec_pc = "spans"
    /\ ec_k > Len(ec_boundaries)
    /\ IF EmitsChunk(ec_start, Len(ec_bytes))
       THEN PushChunk(ec_start, Len(ec_bytes))
       ELSE UNCHANGED <<ec_chunks, ec_spans>>
    /\ ec_pc' = "done"
    /\ UNCHANGED <<ec_bytes, ec_rolling_hash, ec_i, ec_boundaries, ec_k, ec_start>>
    /\ UNCHANGED <<chunk_input, chunk_output, callVars, passVars, normVars>>

ExtractNext == ReturnEmpty \/ FirstWindow \/ Roll \/ RollEnd \/ Span \/ LastChunk

ExtractSpec == ExtractInit /\ [][ExtractNext]_vars

(***************************************************************************)
(* main.rs: the scoring pass, `files.par_iter().filter_map(..).collect()`  *)
(* with --duplicates.  Every file gets one call of the closure; the pool's *)
(* threads take the calls in any order and run them side by side.          *)
(***************************************************************************)
\* the files the walk can find
WalkedPaths == {"gear", "gear_in", "plain", "bad_utf8", "missing", "binary"}

\* the most files a walk finds
MaxWalked == 3

\* the threads of the pool
Workers == 2

\* the sequences of s without a repeated entry
Injective(s) == {q \in s : \A i, j \in 1..Len(q) : i # j => q[i] # q[j]}

\* a closure call that no thread has taken yet
Waiting ==
    [pc |-> "waiting", target_chunks |-> <<>>, all_chunks |-> {}, idx |-> 1,
     result |-> NoResult, value |-> 0]

PassInit ==
    /\ NoCall /\ NoNormalize /\ NoChunking
    /\ files \in Injective(SeqsUpTo(WalkedPaths, MaxWalked))
    /\ task = [i \in 1..Len(files) |-> Waiting]
    /\ running = {}
    /\ results = NoResult

\* a thread of the pool takes the call for files[i]
Pick(i) ==
    /\ task[i].pc = "waiting"
    /\ Cardinality(running) < Workers
    /\ running' = running \cup {i}
    /\ task' = [task EXCEPT ![i].pc = "start"]
    /\ UNCHANGED <<files, results, callVars, normVars, chunkVars>>

\* the call for files[i] returns r
TaskReturn(i, r) ==
    task' = [task EXCEPT ![i].pc = "returned", ![i].result = r]

\* analysis.rs 262-274 in the call for files[i]
TaskStart(i) ==
    /\ i \in running
    /\ task[i].pc = "start"
    /\ LET bin == IsBinaryAt[files[i]]
           target_content == NormalizedAt[files[i]]
           chunks == ChunksAt[files[i]]
       IN  IF ~bin.ok THEN TaskReturn(i, Err)
           ELSE IF bin.val THEN TaskReturn(i, Ok(0))
           ELSE IF ~target_content.ok THEN TaskReturn(i, Err)
           ELSE IF TooSmall(target_content.val) THEN TaskReturn(i, Ok(0))
           ELSE IF chunks = <<>> THEN TaskReturn(i, Ok(0))
           ELSE task' = [task EXCEPT ![i].pc = "index", ![i].target_chunks = chunks]
    /\ UNCHANGED <<files, running, results, callVars, normVars, chunkVars>>

\* an index that every call would write to and read from
SharedIndex(i) == UNION {task[j].all_chunks : j \in DOMAIN task}

\* `let mut all_chunks = HashSet::new()`: the index the call for files[i] uses is its own
OwnIndex(i) == task[i].all_chunks

\* analysis.rs 277-286 in the call for files[i]: one round of the loop over &files
TaskIndex(i) ==
    /\ i \in running
    /\ task[i].pc = "index"
    /\ task[i].idx <= Len(files)
    /\ task' = [task EXCEPT
                    ![i].all_chunks = IndexFile(OwnIndex(i), files[task[i].idx], files[i]),
                    ![i].idx = task[i].idx + 1]
    /\ UNCHANGED <<files, running, results, callVars, normVars, chunkVars>>

\* analysis.rs 288-299 in the call for files[i]
TaskFinish(i) ==
    /\ i \in running
    /\ task[i].pc = "index"
    /\ task[i].idx > Len(files)
    /\ TaskReturn(i, Ok(Percentage(DuplicateChunks(task[i].target_chunks, OwnIndex(i)),
                                   task[i].target_chunks)))
    /\ UNCHANGED <<files, running, results, callVars, normVars, chunkVars>>

\* `.unwrap_or(1)`, as for the complexity of the hotspots
UnwrapOrOne(r) == IF r.ok THEN r.val ELSE 1

\* main.rs 108: `.unwrap_or(0)`
UnwrapOrZero(r) == IF r.ok THEN r.val ELSE 0

\* a thread that stays with the closure call it has finished
KeepsThread(i) == running

\* the closure call for files[i] is over: its thread is free for the next call
Release(i) == running \ {i}

\* main.rs 108-149: the closure takes the score and returns
Emit(i) ==
    /\ i \in running
    /\ task[i].pc = "returned"
    /\ task' = [task EXCEPT ![i].pc = "emitted", ![i].value = UnwrapOrZero(task[i].result)]
    /\ running' = Release(i)
    /\ UNCHANGED <<files, results, callVars, normVars, chunkVars>>

\* main.rs 145-151: the entries of the files with a value above 0, in the order of files
Collected ==
    LET kept == SelectSeq([i \in 1..Len(files) |-> i], LAMBDA i : task[i].value > 0)
    IN  [k \in 1..Len(kept) |-> <<files[kept[k]], task[kept[k]].value>>]

\* `.collect()`: every closure call is over
Collect ==
    /\ results = NoResult
    /\ \A i \in DOMAIN task : task[i].pc = "emitted"
    /\ results' = [entries |-> Collected]
    /\ UNCHANGED <<files, task, running, callVars, normVars, chunkVars>>

PassNext ==
    \/ \E i \in DOMAIN task : Pick(i)
    \/ \E i \in DOMAIN task : TaskStart(i)
    \/ \E i \in DOMAIN task : TaskIndex(i)
    \/ \E i \in DOMAIN task : TaskFinish(i)
    \/ \E i \in DOMAIN task : Emit(i)
    \/ Collect

\* a thread that has a step to take takes it, and a free thread takes a waiting call
PassSpec == PassInit /\ [][PassNext]_vars /\ WF_vars(PassNext)

(***************************************************************************)
(* The vocabulary of the properties.                                       *)
(***************************************************************************)
\* the call has returned a score
Scored == pc = "done" /\ result.ok

\* path holds a text file that is read to its end
IsText(p) == IsBinaryAt[p].ok /\ ~IsBinaryAt[p].val /\ NormalizedAt[p].ok

\* the target went through chunking and the loop over the corpus was entered
TargetChunked == pc # "start" /\ target_chunks # <<>>

\* the fingerprints of the corpus files that take part in the index: not the
\* target, not binary, readable
CorpusIndex ==
    UNION {Range(ChunksAt[q]) : q \in {r \in Range(all_files) : r # target_path /\ IsText(r)}}

\* a is found in b as a contiguous run
IsSubstring(a, b) ==
    \E o \in 0..(Len(b) - Len(a)) : SubSeq(b, o + 1, o + Len(a)) = a

\* the file under path cannot be opened, cannot be read, or holds a byte that
\* ends the read part-way (judged on the file itself)
Unreadable(p) ==
    \/ ~FileSystem[p].opens
    \/ ~FileSystem[p].reads
    \/ \E i \in 1..Len(FileSystem[p].bytes) : FileSystem[p].bytes[i] >= 128

\* all_files without the entries equal to x
Remove(corpus, x) == SelectSeq(corpus, LAMBDA p : p # x)

\* how many times fingerprint f occurs in the target's chunk list
Multiplicity(f) == Cardinality({k \in 1..Len(target_chunks) : target_chunks[k] = f})

RECURSIVE SumMultiplicity(_)
SumMultiplicity(fs) ==
    IF fs = {} THEN 0
    ELSE LET f == CHOOSE x \in fs : TRUE
         IN  Multiplicity(f) + SumMultiplicity(fs \ {f})

\* the spans between consecutive boundaries (the first from 0) that are shorter
\* than the minimum chunk size and not empty
ShortSpans(p) ==
    LET bd == BoundariesAt[p]
        From(k) == IF k = 1 THEN 0 ELSE bd[k - 1]
    IN  {<<From(k), bd[k]>> : k \in {j \in 1..Len(bd) : bd[j] > From(j) /\ bd[j] - From(j) < MinChunk}}

\* the content under path holds two consecutive boundaries at least the minimum
\* chunk size apart
HasInteriorChunk(p) ==
    \E k \in 1..(Len(BoundariesAt[p]) - 1) :
        BoundariesAt[p][k + 1] - BoundariesAt[p][k] >= MinChunk

\* b is a text file of at least 100 normalized bytes whose normalized content
\* is found whole in that of a, itself of at least 100 bytes
ContainsContentOf(a, b) ==
    /\ IsText(a) /\ IsText(b)
    /\ Len(NormalizedAt[a].val) >= MinContent
    /\ Len(NormalizedAt[b].val) >= MinContent
    /\ IsSubstring(NormalizedAt[b].val, NormalizedAt[a].val)

\* the corpus files indexed so far, the target apart
Indexed == {all_files[j] : j \in {i \in 1..(idx - 1) : all_files[i] # target_path}}

(***************************************************************************)
(* The properties.                                                         *)
(***************************************************************************)

\* C1: a score that the call returns is an integer from 0 to 100.
ScoreInRange == Scored => result.val \in 0..100

\* every chunk of the target is a duplicate and one of them occurs twice
ScoreInRangeWitness ==
    /\ Scored
    /\ DuplicateChunks(target_chunks, all_chunks) = Len(target_chunks)
    /\ Cardinality(Range(target_chunks)) < Len(target_chunks)

\* C2: for a text target of at least 100 normalized bytes the score is
\* floor(duplicate_count * 100 / total), where total is the length of the
\* target's chunk list and duplicate_count the number of its entries found among
\* the fingerprints of the other readable text files of the corpus.
ScoreIsFloor ==
    (pc = "done" /\ IsText(target_path) /\ ChunksAt[target_path] # <<>>
         /\ Len(NormalizedAt[target_path].val) >= MinContent)
    => LET chunks == ChunksAt[target_path]
           total == Len(chunks)
           duplicate_count == Cardinality({k \in 1..total : chunks[k] \in CorpusIndex})
       IN  result = Ok((duplicate_count * 100) \div total)

\* a score where the division leaves a remainder
ScoreIsFloorWitness ==
    /\ Scored
    /\ target_chunks # <<>>
    /\ (DuplicateChunks(target_chunks, all_chunks) * 100) % Len(target_chunks) # 0

\* C3: a target whose normalized content, of at least 100 bytes, is also the
\* normalized content of another file of the corpus scores 100.
TwinScoresHundred ==
    (pc = "done" /\ \E q \in Range(all_files) :
                        /\ q # target_path
                        /\ ContainsContentOf(q, target_path)
                        /\ NormalizedAt[q].val = NormalizedAt[target_path].val)
    => result = Ok(100)

\* the twin's bytes differ from the target's: only normalization makes them equal
TwinScoresHundredWitness ==
    /\ pc = "done"
    /\ \E q \in Range(all_files) :
           /\ q # target_path
           /\ ContainsContentOf(q, target_path)
           /\ NormalizedAt[q].val = NormalizedAt[target_path].val
           /\ FileSystem[q].bytes # FileSystem[target_path].bytes

\* C4: the entries of all_files equal to the target add nothing to the index,
\* and a target scored against a corpus of itself alone scores 0.
SelfExcluded ==
    /\ all_chunks \subseteq UNION {Range(ChunksAt[q]) : q \in Indexed}
    /\ Range(all_files) \subseteq {target_path}
           => all_chunks = {} /\ (Scored => result.val = 0)

\* a chunked target scored against a corpus that lists it, and nothing else
SelfExcludedWitness ==
    /\ Scored
    /\ target_chunks # <<>>
    /\ all_files # <<>>
    /\ Range(all_files) = {target_path}

\* C5: a text target of fewer than 100 normalized bytes scores 0 without any
\* corpus file being accessed; one of exactly 100 bytes is chunked and scored
\* against the whole corpus.
SmallTargetScoresZero ==
    /\ (pc = "done" /\ IsText(target_path) /\ Len(NormalizedAt[target_path].val) < MinContent)
           => /\ result = Ok(0)
              /\ target_chunks = <<>> /\ all_chunks = {}
              /\ \A k \in 1..Len(io) : io[k][2] = target_path
    /\ (pc # "start" /\ IsText(target_path) /\ Len(NormalizedAt[target_path].val) = MinContent)
           => /\ target_chunks # <<>>
              /\ pc = "done" => idx = Len(all_files) + 1 /\ all_chunks = CorpusIndex

\* a target of 99 normalized bytes scored against a corpus that holds its twin
SmallTargetScoresZeroWitness ==
    /\ pc = "done"
    /\ IsText(target_path)
    /\ Len(NormalizedAt[target_path].val) = MinContent - 1
    /\ \E q \in Range(all_files) :
           q # target_path /\ IsText(q) /\ NormalizedAt[q].val = NormalizedAt[target_path].val

\* C6, as stated: once a file is indexed whose content contains the target's, or
\* is contained in it (both of at least 100 bytes), the target's chunk list and
\* that file's share a fingerprint.
ContainmentSharesChunk ==
    TargetChunked =>
        \A q \in Indexed :
            ContainsContentOf(q, target_path) \/ ContainsContentOf(target_path, q)
            => Range(target_chunks) \cap Range(ChunksAt[q]) # {}

\* C6, amended: the same, where the contained content holds two consecutive
\* boundaries at least 20 bytes apart.
InteriorChunkShared ==
    TargetChunked =>
        \A q \in Indexed :
            \/ ContainsContentOf(q, target_path) /\ HasInteriorChunk(target_path)
            \/ ContainsContentOf(target_path, q) /\ HasInteriorChunk(q)
            => Range(target_chunks) \cap Range(ChunksAt[q]) # {}

\* the target's content lies strictly inside the indexed file's
InteriorChunkSharedWitness ==
    /\ TargetChunked
    /\ \E q \in Indexed :
           /\ ContainsContentOf(q, target_path)
           /\ HasInteriorChunk(target_path)
           /\ ~IsSubstring(NormalizedAt[q].val, NormalizedAt[target_path].val)
           /\ SubSeq(NormalizedAt[q].val, 1, window_size)
                  # SubSeq(NormalizedAt[target_path].val, 1, window_size)

\* C7, as stated: the bytes of a span shorter than 20 bytes are part of an
\* emitted chunk.
ShortSpanMergedForward ==
    TargetChunked =>
        \A short \in ShortSpans(target_path) :
            \E k \in 1..Len(SpansAt[target_path]) :
                /\ SpansAt[target_path][k][1] <= short[1]
                /\ short[2] <= SpansAt[target_path][k][2]

\* C7, amended: a boundary that would close a span shorter than 20 bytes emits
\* no chunk and the next span starts at that boundary: no chunk holds a byte of
\* the short span, and every chunk runs from 0 or a boundary to the next
\* boundary or the end of the content.
ShortSpanDropped ==
    TargetChunked =>
        LET spans == SpansAt[target_path]
            bd == Range(BoundariesAt[target_path])
            n == Len(NormalizedAt[target_path].val)
        IN  /\ Len(target_chunks) = Len(spans)
            /\ \A short \in ShortSpans(target_path) :
                   \A k \in 1..Len(spans) :
                       spans[k][2] <= short[1] \/ short[2] <= spans[k][1]
            /\ \A k \in 1..Len(spans) :
                   /\ spans[k][1] \in bd \cup {0}
                   /\ spans[k][2] \in bd \cup {n}
                   /\ \A b \in bd : ~(spans[k][1] < b /\ b < spans[k][2])

\* a short span lies between two chunks of the target
ShortSpanDroppedWitness ==
    /\ TargetChunked
    /\ \E short \in ShortSpans(target_path) :
           \E j, k \in 1..Len(SpansAt[target_path]) :
               /\ SpansAt[target_path][j][2] <= short[1]
               /\ short[2] <= SpansAt[target_path][k][1]

\* C8: the target's fingerprints are those of its spans, one each, and every
\* span is a slice of the content of at least 20 bytes, in order and without
\* overlap; no span shorter than 20 bytes is among them.
ChunksAtLeastMinimum ==
    TargetChunked =>
        LET spans == SpansAt[target_path]
            n == Len(NormalizedAt[target_path].val)
        IN  /\ Len(target_chunks) = Len(spans)
            /\ \A k \in 1..Len(spans) :
                   /\ 0 <= spans[k][1]
                   /\ spans[k][2] <= n
                   /\ spans[k][2] - spans[k][1] >= MinChunk
                   /\ k > 1 => spans[k - 1][2] <= spans[k][1]
            /\ ShortSpans(target_path) \cap Range(spans) = {}

\* the target's content has a leading and an interior span under 20 bytes
ChunksAtLeastMinimumWitness ==
    /\ TargetChunked
    /\ \E a, b \in ShortSpans(target_path) : a[1] = 0 /\ b[1] > 0

\* C9: duplicate_count is the sum, over the fingerprints of the target found in
\* the index, of the times each occurs in the target's chunk list, and the total
\* the sum over all its fingerprints; listing every corpus file twice changes
\* nothing.
CountedPerInstance ==
    (Scored /\ target_chunks # <<>>)
    => /\ result.val = (SumMultiplicity(Range(target_chunks) \cap all_chunks) * 100)
                           \div SumMultiplicity(Range(target_chunks))
       /\ result = calculate_duplication_percentage(target_path, all_files \o all_files)

\* a fingerprint of the index occurs twice in the target and others are not in it
CountedPerInstanceWitness ==
    /\ Scored
    /\ \E f \in Range(target_chunks) \cap all_chunks : Multiplicity(f) >= 2
    /\ ~(Range(target_chunks) \subseteq all_chunks)

\* C10: a corpus file other than the target that cannot be opened or read to its
\* end adds no fingerprint to the index; the call returns a score whenever the
\* target can be classified and read, and its result is that of the call with
\* the file removed from all_files.
UnreadableSkipped ==
    /\ all_chunks \subseteq UNION {Range(ChunksAt[q]) : q \in {r \in Indexed : ~Unreadable(r)}}
    /\ pc = "done" =>
           /\ IsBinaryAt[target_path].ok /\ (IsBinaryAt[target_path].val \/ NormalizedAt[target_path].ok)
                  => result.ok
           /\ \A x \in Range(all_files) :
                  x # target_path /\ Unreadable(x)
                  => result = calculate_duplication_percentage(target_path, Remove(all_files, x))

\* a score above 0 with a corpus file whose read fails after its first lines
UnreadableSkippedWitness ==
    /\ Scored
    /\ result.val > 0
    /\ \E x \in Range(all_files) :
           /\ x # target_path
           /\ FileSystem[x].opens /\ FileSystem[x].reads
           /\ \E i \in 1..Len(FileSystem[x].bytes) :
                  /\ FileSystem[x].bytes[i] >= 128
                  /\ \E j \in 1..(i - 1) : FileSystem[x].bytes[j] = 10

\* is_binary classifies the file under path as binary
IsBinaryFile(p) == IsBinaryAt[p].ok /\ IsBinaryAt[p].val

\* C13: a target classified as binary scores 0 after that one access: it is
\* not read, not chunked, and no corpus file is accessed; no file classified as
\* binary is ever read, and none adds a fingerprint to the index.
BinaryDecidedFirst ==
    /\ (pc = "done" /\ IsBinaryFile(target_path))
           => /\ result = Ok(0)
              /\ io = <<<<"is_binary", target_path>>>>
              /\ target_chunks = <<>> /\ all_chunks = {} /\ idx = 1
    /\ \A k \in 1..Len(io) : io[k][1] = "read" => ~IsBinaryFile(io[k][2])
    /\ all_chunks \subseteq UNION {Range(ChunksAt[q]) : q \in {r \in Indexed : ~IsBinaryFile(r)}}

\* a binary target whose text, were it read, is that of a corpus file
BinaryDecidedFirstWitness ==
    /\ pc = "done"
    /\ IsBinaryFile(target_path)
    /\ \E q \in Range(all_files) :
           /\ q # target_path /\ IsText(q)
           /\ Range(ChunksAt[q]) \cap Range(ChunksAt[target_path]) # {}

(***************************************************************************)
(* The properties of read_normalized_content.                              *)
(***************************************************************************)
\* the text was read and normalized
Normalized == normalized # NoResult /\ normalized.ok

\* byte x is directly followed by byte y in s
HasPair(s, x, y) == \E i \in 1..(Len(s) - 1) : s[i] = x /\ s[i + 1] = y

\* s holds one of `//`, `/*`, `*/`
HasCommentPair(s) == HasPair(s, 47, 47) \/ HasPair(s, 47, 42) \/ HasPair(s, 42, 47)

HasUppercase(s) == \E i \in 1..Len(s) : s[i] \in 65..90

\* C16, as stated: the normalized content holds none of `//`, `/*`, `*/`, `#`
\* and no uppercase letter.
NoCommentMarkers ==
    Normalized => /\ ~HasCommentPair(normalized.val)
                  /\ 35 \notin Range(normalized.val)
                  /\ ~HasUppercase(normalized.val)

\* C16, amended: the normalized content holds no `#` and no uppercase letter,
\* and none of `//`, `/*`, `*/` when the input holds no `#`.
NoCommentMarkersWithoutHash ==
    Normalized => /\ 35 \notin Range(normalized.val)
                  /\ ~HasUppercase(normalized.val)
                  /\ 35 \notin Range(text) => ~HasCommentPair(normalized.val)

\* a text without `#` that holds a pair and an uppercase letter and is not
\* normalized away
NoCommentMarkersWithoutHashWitness ==
    /\ Normalized
    /\ 35 \notin Range(text)
    /\ HasCommentPair(text)
    /\ HasUppercase(text)
    /\ normalized.val # <<>>

\* C17: the normalized content holds no space and no tab, does not start with
\* a newline and holds no two newlines in a row.
NoBlankLineNoSpace ==
    Normalized => /\ 32 \notin Range(normalized.val)
                  /\ 9 \notin Range(normalized.val)
                  /\ normalized.val # <<>> => normalized.val[1] # 10
                  /\ ~HasPair(normalized.val, 10, 10)

\* a text with an empty line and a space inside a line that is kept
NoBlankLineNoSpaceWitness ==
    /\ Normalized
    /\ text # <<>>
    /\ HasPair(text, 10, 10) \/ text[1] = 10
    /\ \E i \in 2..(Len(text) - 1) :
           text[i] = 32 /\ ~IsWhitespace(text[i - 1]) /\ ~IsWhitespace(text[i + 1])
    /\ normalized.val # <<>>

RECURSIVE JoinLines(_)
\* every line of ls followed by one newline
JoinLines(ls) ==
    IF ls = <<>> THEN <<>> ELSE Head(ls) \o <<10>> \o JoinLines(Tail(ls))

\* the lines of the text, each cleaned, in order
CleanedLines == [k \in 1..Len(Lines(text)) |-> normalize_line(Lines(text)[k])]

\* C18: the normalized content is the cleaned lines that are not empty, in
\* input order, each followed by one newline; it is empty or ends with a
\* newline, and holds as many newlines as lines were kept.
KeptLinesInOrder ==
    Normalized =>
        LET kept == SelectSeq(CleanedLines, LAMBDA c : c # <<>>)
            out == normalized.val
        IN  /\ out = JoinLines(kept)
            /\ out = <<>> \/ out[Len(out)] = 10
            /\ Cardinality({i \in 1..Len(out) : out[i] = 10}) = Len(kept)

\* two lines are kept and one between them is dropped
KeptLinesInOrderWitness ==
    /\ Normalized
    /\ \E i, j, k \in 1..Len(CleanedLines) :
           /\ i < j /\ j < k
           /\ CleanedLines[i] # <<>> /\ CleanedLines[j] = <<>> /\ CleanedLines[k] # <<>>

\* t with byte b put in after its first k bytes
InsertAt(t, k, b) == SubSeq(t, 1, k) \o <<b>> \o SubSeq(t, k + 1, Len(t))

\* t with the case of the letter at k changed
ToggleCase(t, k) ==
    [t EXCEPT ![k] = IF t[k] \in 65..90 THEN t[k] + 32 ELSE t[k] - 32]

IsLetter(b) == b \in 65..90 \/ b \in 97..122

\* the texts one cosmetic change away from t: a space or a tab more, a letter
\* in the other case, an empty line more
CosmeticEdits(t) ==
    {InsertAt(t, k, b) : k \in 0..Len(t), b \in {32, 9}}
    \cup {ToggleCase(t, k) : k \in {i \in 1..Len(t) : IsLetter(t[i])}}
    \cup {InsertAt(t, k, 10) : k \in {i \in 0..Len(t) : i = 0 \/ t[i] = 10}}

\* C19: a text and the same text with a space or tab put in or taken out, a
\* letter in the other case, or an empty line put in or taken out have the same
\* normalized content.
CosmeticEditsVanish ==
    Normalized =>
        \A edited \in CosmeticEdits(text) :
            read_normalized_content(TextFile(edited)) = normalized

\* a text of the greatest length with a letter, normalized to two lines
CosmeticEditsVanishWitness ==
    /\ Normalized
    /\ Len(text) = MaxText
    /\ \E i \in 1..Len(text) : IsLetter(text[i])
    /\ Cardinality({i \in 1..Len(normalized.val) : normalized.val[i] = 10}) = 2

(***************************************************************************)
(* The properties of extract_chunks.                                       *)
(***************************************************************************)
\* extract_chunks has returned
Chunked == chunk_output # NoResult

\* C20: a content shorter than 32 bytes yields no chunk, also one of 20 to 31
\* bytes.
ShortContentNoChunk ==
    (Chunked /\ Len(chunk_input) < 32) => chunk_output.chunks = <<>>

\* a content of 20 to 31 bytes was chunked
ShortContentNoChunkWitness ==
    Chunked /\ Len(chunk_input) \in 20..31 /\ chunk_output.chunks = <<>>

(***************************************************************************)
(* The properties of the scoring pass.                                     *)
(***************************************************************************)
\* the call for files[i] has returned
Returned(i) == task[i].pc \in {"returned", "emitted"}

\* every closure call is over and the vector is collected
PassDone == results # NoResult

\* the file under path cannot be opened or read as a target: the open or a
\* read fails, or it is not classified as binary and a byte ends the read
FailsAsTarget(p) ==
    \/ ~FileSystem[p].opens
    \/ ~FileSystem[p].reads
    \/ ~IsBinaryFile(p) /\ Unreadable(p)

\* C11: the call for a target that cannot be opened or read returns the error
\* and no score, the pass takes 0 as the file's value, and the pass is
\* collected with the values of the other files.
TargetErrorScoresZero ==
    \A i \in DOMAIN task :
        FailsAsTarget(files[i]) =>
            /\ Returned(i) => ~task[i].result.ok
            /\ task[i].value = 0
            /\ PassDone => \A k \in 1..Len(results.entries) : results.entries[k][1] # files[i]

\* a collected pass with a target that failed and a file that scored
TargetErrorScoresZeroWitness ==
    /\ PassDone
    /\ \E i \in DOMAIN task : FailsAsTarget(files[i])
    /\ results.entries # <<>>

\* the list with r in the place of its k-th entry
Replace(corpus, k, r) == [corpus EXCEPT ![k] = r]

\* the text files that could stand in the place of an unreadable file
ReadableInstead == {p \in WalkedPaths : IsText(p)} \ Range(files)

\* C12, as stated: the value of every other file is the one it has with a
\* readable file in the place of the unreadable one.
UnreadableChangesNoScore ==
    PassDone =>
        \A x \in DOMAIN task :
            Unreadable(files[x]) =>
                \A y \in DOMAIN task \ {x} :
                    \A r \in ReadableInstead :
                        task[y].value = UnwrapOrZero(
                            calculate_duplication_percentage(files[y], Replace(files, x, r)))

\* C12, amended: the call of every other file returns as it does without the
\* unreadable file in the list, and its value is at most the one it has with
\* a readable file in the place of the unreadable one.
UnreadableOnlyLowersScores ==
    PassDone =>
        \A x \in DOMAIN task :
            Unreadable(files[x]) =>
                \A y \in DOMAIN task \ {x} :
                    /\ task[y].result
                           = calculate_duplication_percentage(files[y], Remove(files, files[x]))
                    /\ task[y].value = UnwrapOrZero(task[y].result)
                    /\ \A r \in ReadableInstead :
                           task[y].value <= UnwrapOrZero(
                               calculate_duplication_percentage(files[y], Replace(files, x, r)))

\* next to an unreadable file, a file that was scored has a lower value than
\* it would with a readable file in the place of the unreadable one
UnreadableOnlyLowersScoresWitness ==
    /\ PassDone
    /\ \E x \in DOMAIN task :
           /\ Unreadable(files[x])
           /\ \E y \in DOMAIN task \ {x} : \E r \in ReadableInstead :
                  /\ task[y].result.ok
                  /\ task[y].value < UnwrapOrZero(
                         calculate_duplication_percentage(files[y], Replace(files, x, r)))

\* the index of the call for files[i] after n rounds of its loop, run alone
IndexAlone(i, n) ==
    FoldRange(LAMBDA acc, k : IndexFile(acc, files[k], files[i]), 1, n, {})

\* the state of the call for files[i] is what the call reaches run alone
TaskAsAlone(i) ==
    /\ task[i].all_chunks = IndexAlone(i, task[i].idx - 1)
    /\ task[i].target_chunks \in {<<>>, ChunksAt[files[i]]}
    /\ Returned(i) => task[i].result = calculate_duplication_percentage(files[i], files)
    /\ task[i].pc = "emitted" =>
           task[i].value = UnwrapOrZero(calculate_duplication_percentage(files[i], files))

\* a step changes the state of at most one call, one that a thread is
\* executing or takes, and leaves the file list as it is
StepIsLocal ==
    /\ files' = files
    /\ \A i, j \in DOMAIN task :
           (task'[i] # task[i] /\ task'[j] # task[j]) => i = j
    /\ \A i \in DOMAIN task :
           task'[i] # task[i] => i \in running \cup running'

\* C14: in every interleaving, the index and chunk list of each call are those
\* of the call run alone whatever the other calls have done, each step changes
\* one call's own state only, the file list is never changed, and each file's
\* score is that of its call run alone.
TasksIsolated == [](\A i \in DOMAIN task : TaskAsAlone(i)) /\ [][StepIsLocal]_vars

\* two calls are in their loops at once, both with fingerprints in the index
TasksIsolatedWitness ==
    \E i, j \in running :
        /\ i # j
        /\ task[i].pc = "index" /\ task[i].all_chunks # {}
        /\ task[j].pc = "index" /\ task[j].all_chunks # {}

\* a thread can take a step, or the pass is over
CanStep ==
    \/ PassDone
    \/ \A i \in DOMAIN task : task[i].pc = "emitted"
    \/ \E i \in running : task[i].pc \in {"start", "index", "returned"}
    \/ Cardinality(running) < Workers /\ \E i \in DOMAIN task : task[i].pc = "waiting"

\* C15: no state is reached where calls are unfinished and no thread can take
\* a step, and every call ends, with a score or an error, and the pass is
\* collected.
NoTaskWaitsForever ==
    /\ [](CanStep /\ \A i \in running : task[i].pc # "waiting")
    /\ <>(PassDone /\ \A i \in DOMAIN task : Returned(i) /\ task[i].result # NoResult)

\* the call for the last file is over before the call for the first is taken
NoTaskWaitsForeverWitness ==
    /\ Len(files) = MaxWalked
    /\ task[1].pc = "waiting"
    /\ task[Len(files)].pc = "emitted"
    /\ \E i \in running : task[i].pc = "index"

(***************************************************************************)
(* Fingerprints.                                                           *)
(***************************************************************************)
\* a u64: four limbs below 2^16
IsU64(h) == Len(h) = 4 /\ \A k \in 1..4 : h[k] \in 0..(Limb - 1)

\* (h * 32) mod 2^64: every limb moves up five bits and takes the top five of the limb below
ShiftLeft5(h) ==
    [k \in 1..4 |-> ((h[k] * 32) % Limb) + (IF k = 1 THEN 0 ELSE h[k - 1] \div (Limb \div 32))]

\* (a - b) mod 2^64, with the borrow passed up the limbs
SubMod64(a, b) ==
    LET d1 == a[1] - b[1]
        d2 == a[2] - b[2] - (IF d1 < 0 THEN 1 ELSE 0)
        d3 == a[3] - b[3] - (IF d2 < 0 THEN 1 ELSE 0)
        d4 == a[4] - b[4] - (IF d3 < 0 THEN 1 ELSE 0)
    IN  <<(d1 + Limb) % Limb, (d2 + Limb) % Limb, (d3 + Limb) % Limb, (d4 + Limb) % Limb>>

\* (a + n) mod 2^64 for n < 2^16, with the carry passed up the limbs
AddMod64(a, n) ==
    LET s1 == a[1] + n
        s2 == a[2] + (s1 \div Limb)
        s3 == a[3] + (s2 \div Limb)
        s4 == a[4] + (s3 \div Limb)
    IN  <<s1 % Limb, s2 % Limb, s3 % Limb, s4 % Limb>>

\* the fold h := (h * 31 + byte) mod 2^64 from 0, with h * 31 taken as h * 32 - h
Fold31(s) ==
    FoldRange(LAMBDA h, n : AddMod64(SubMod64(ShiftLeft5(h), h), s[n]), 1, Len(s), U64Zero)

\* the extraction has returned
Extracted == ec_pc = "done"

\* the bytes behind the k-th fingerprint pushed so far
ChunkBytes(k) == Slice(ec_bytes, ec_spans[k][1], ec_spans[k][2])

\* the bytes behind the j-th fingerprint of the file at path p
ChunkBytesAt(p, j) == Slice(NormalizedAt[p].val, SpansAt[p][j][1], SpansAt[p][j][2])

\* C21: every fingerprint is a u64 and is the fold h := (h * 31 + byte) mod 2^64
\* from 0 over the bytes of its chunk, and two chunks of the same bytes have the
\* same fingerprint, whether they sit in one content or in two, at whatever
\* offsets.
FingerprintIsWrappingFold ==
    \A k \in 1..Len(ec_chunks) :
        /\ IsU64(ec_chunks[k])
        /\ ec_chunks[k] = Fold31(ChunkBytes(k))
        /\ \A j \in 1..Len(ec_chunks) :
               ChunkBytes(j) = ChunkBytes(k) => ec_chunks[j] = ec_chunks[k]
        /\ \A p \in Paths : \A j \in 1..Len(ChunksAt[p]) :
               ChunkBytesAt(p, j) = ChunkBytes(k) => ChunksAt[p][j] = ec_chunks[k]

\* a chunk long enough for the fold to pass 2^64 has the bytes of a chunk of
\* another content, at another offset
FingerprintIsWrappingFoldWitness ==
    /\ Extracted
    /\ \E k \in 1..Len(ec_chunks) : \E p \in Paths : \E j \in 1..Len(ChunksAt[p]) :
           /\ NormalizedAt[p].val # ec_bytes
           /\ ChunkBytesAt(p, j) = ChunkBytes(k)
           /\ SpansAt[p][j][1] # ec_spans[k][1]
           /\ Len(ChunkBytes(k)) >= 14
           /\ ChunkBytes(k)[1] > 0

(***************************************************************************)
(* The score and the corpus.                                               *)
(***************************************************************************)
\* C22: a returned score is 0 when no fingerprint of the target is among the
\* fingerprints of the corpus files that take part in the index.
DisjointScoresZero ==
    (Scored /\ Range(ChunksAt[target_path]) \cap CorpusIndex = {}) => result.val = 0

\* a chunked target is scored against a corpus that has fingerprints, none of
\* them the target's
DisjointScoresZeroWitness ==
    /\ Scored
    /\ TargetChunked
    /\ CorpusIndex # {}
    /\ Range(target_chunks) \cap CorpusIndex = {}
    /\ result.val = 0

(***************************************************************************)
(* The rolling hash.                                                       *)
(***************************************************************************)
\* (257 * h) mod 1_000_000_007 for h below the modulus: h doubled eight times, plus h
Times257(h) ==
    (Twice(Twice(Twice(Twice(Twice(Twice(Twice(Twice(h, modulus), modulus), modulus),
                                   modulus), modulus), modulus), modulus), modulus) + h) % modulus

\* the polynomial hash h := (h * 257 + byte) mod 1_000_000_007 from 0 over s
PolynomialHash(s) ==
    FoldRange(LAMBDA h, n : (Times257(h) + s[n]) % modulus, 1, Len(s), 0)

\* the rolling loop is at the head of a round, or has left its last one
Rolling == ec_pc = "roll"

\* C23: at the head of round i of the rolling loop, and after the last round,
\* the rolling hash is the polynomial hash of bytes[i - 32..i]: the value
\* tested in round i is the hash of that window, and the value left by the
\* update of round i - 1 is the hash of bytes[(i - 1) - 31..=(i - 1)].
RollingHashIsWindowHash ==
    Rolling => ec_rolling_hash = PolynomialHash(Slice(ec_bytes, ec_i - window_size, ec_i))

\* the window has moved past every byte of the first window, and the leaving
\* byte's share was more than the hash it was taken from
RollingHashIsWindowHashWitness ==
    /\ Rolling
    /\ ec_i >= 2 * window_size
    /\ ec_i < Len(ec_bytes)
    /\ ec_rolling_hash < MulMod(At(ec_bytes, ec_i - window_size), power, modulus)

\* the low 8 bits of the polynomial hash of the 32 bytes from position p on are zero
GearWindowAt(s, p) == PolynomialHash(Slice(s, p, p + 32)) % 256 = 0

\* the content is bytes[d..end] of the file at path q
IsCutOf(q, d, end) ==
    /\ NormalizedAt[q].ok
    /\ end <= Len(NormalizedAt[q].val)
    /\ d <= end
    /\ ec_bytes = Slice(NormalizedAt[q].val, d, end)

\* C24: for a content of n >= 32 bytes the recorded boundaries are exactly the
\* positions p from 0 to n - 33 where the low 8 bits of the polynomial hash of
\* bytes[p..p + 32] are zero; and when the content is a part of a file, from
\* byte d to byte end, its boundaries are the boundaries b of the file with
\* d <= b <= end - 33, each lower by d.
BoundaryIsLocal ==
    (Extracted /\ Len(ec_bytes) >= 32) =>
        /\ Range(ec_boundaries) = {p \in 0..(Len(ec_bytes) - 33) : GearWindowAt(ec_bytes, p)}
        /\ \A q \in Paths : \A d \in 0..MaxSkip : \A end \in (d + 32)..(d + Len(ec_bytes)) :
               IsCutOf(q, d, end)
               => Range(ec_boundaries)
                  = {b - d : b \in {c \in Range(BoundariesAt[q]) : d <= c /\ c <= end - 33}}

\* the content is a file without its first bytes and cut after the 32 bytes
\* that follow one of its boundaries: the content has a boundary, and its last
\* 32 bytes have a hash with a zero low byte and their position is no boundary
BoundaryIsLocalWitness ==
    /\ Extracted
    /\ ec_boundaries # <<>>
    /\ \E q \in Paths : \E d \in 1..MaxSkip :
           /\ IsCutOf(q, d, d + Len(ec_bytes))
           /\ d + Len(ec_bytes) < Len(NormalizedAt[q].val)
    /\ GearWindowAt(ec_bytes, Len(ec_bytes) - 32)
    /\ Len(ec_bytes) - 32 \notin Range(ec_boundaries)

(***************************************************************************)
(* The chunks of a content.                                                *)
(***************************************************************************)
\* where the span that reaches the end of the content starts
LastStart == IF ec_boundaries = <<>> THEN 0 ELSE ec_boundaries[Len(ec_boundaries)]

\* C25: for a content of 32 bytes or more, the span from the last boundary (from
\* 0 without a boundary) to the end is at least 20 bytes long and is the last
\* chunk emitted, so the returned list is not empty; a content that passes the
\* scorer's 100-byte check therefore never has an empty chunk list.
TrailingSpanEmitted ==
    /\ (Extracted /\ Len(ec_bytes) >= 32) =>
           /\ Len(ec_bytes) - LastStart >= 20
           /\ ec_chunks # <<>>
           /\ ec_spans[Len(ec_spans)] = <<LastStart, Len(ec_bytes)>>
           /\ ec_chunks[Len(ec_chunks)] = simple_hash(Slice(ec_bytes, LastStart, Len(ec_bytes)))
    /\ (Extracted /\ ~TooSmall(ec_bytes)) => ec_chunks # <<>>

\* the last boundary is as late as a boundary can be, 33 bytes before the end
TrailingSpanEmittedWitness ==
    /\ Extracted
    /\ ec_boundaries # <<>>
    /\ LastStart = Len(ec_bytes) - 33
    /\ Len(ec_chunks) >= 2

\* the scorer's test of an empty chunk list (lines 272-274) is false whenever it
\* is reached
EmptyChunksBranchUntaken ==
    ~(/\ pc = "done"
      /\ IsText(target_path)
      /\ ~TooSmall(NormalizedAt[target_path].val)
      /\ target_chunks = <<>>)

(***************************************************************************)
(* The score as a function of the corpus list.                             *)
(***************************************************************************)
\* the lists of up to MaxFiles entries that name the same files as all_files
SameFiles == {o \in SeqsUpTo(Range(all_files), MaxFiles) : Range(o) = Range(all_files)}

\* C26: the call returns what it returns for every other list of the same
\* files, in whatever order and with whatever entries repeated.
OrderAndRepeatsIgnored ==
    pc = "done" =>
        \A o \in SameFiles : result = calculate_duplication_percentage(target_path, o)

\* the list names two text files besides the target, of which one has a
\* fingerprint of the target and the other has fingerprints and none of the
\* target's
OrderAndRepeatsIgnoredWitness ==
    /\ Scored
    /\ TargetChunked
    /\ result.val > 0
    /\ \E i, j \in 1..Len(all_files) :
           /\ all_files[i] # target_path /\ IsText(all_files[i])
           /\ all_files[j] # target_path /\ IsText(all_files[j])
           /\ Range(ChunksAt[all_files[i]]) \cap Range(target_chunks) # {}
           /\ ChunksAt[all_files[j]] # <<>>
           /\ Range(ChunksAt[all_files[j]]) \cap Range(target_chunks) = {}
    /\ Cardinality(SameFiles) >= 2

\* the list without its k-th entry
Without(corpus, k) == SubSeq(corpus, 1, k - 1) \o SubSeq(corpus, k + 1, Len(corpus))

\* C27: for a text target, a file added to the list never lowers the score,
\* and an entry taken out of the list never raises it.
ScoreMonotoneInCorpus ==
    (Scored /\ IsText(target_path)) =>
        /\ \A p \in Paths :
               calculate_duplication_percentage(target_path, Append(all_files, p)).val
                   >= result.val
        /\ \A k \in 1..Len(all_files) :
               calculate_duplication_percentage(target_path, Without(all_files, k)).val
                   <= result.val

\* a file can be added that raises the score, and an entry can be taken out
\* that lowers it
ScoreMonotoneInCorpusWitness ==
    /\ Scored
    /\ IsText(target_path)
    /\ \E p \in Paths :
           calculate_duplication_percentage(target_path, Append(all_files, p)).val > result.val
    /\ \E k \in 1..Len(all_files) :
           calculate_duplication_percentage(target_path, Without(all_files, k)).val < result.val

\* the first boundary after position x, the end of the content where there is none
NextBoundaryAfter(x) ==
    LET later == {b \in Range(ec_boundaries) : b > x}
    IN  IF later = {} THEN Len(ec_bytes) ELSE CHOOSE b \in later : \A c \in later : b <= c

\* C28: the recorded boundaries are strictly increasing positions from 0 to
\* len - 33; the emitted chunks are non-empty slices of the content, each
\* starting at 0 or at a boundary and ending at the first boundary after its
\* start or at the end of the content, listed in increasing order with none
\* overlapping the next.
BoundariesAndChunksOrdered ==
    /\ \A k \in 1..Len(ec_boundaries) : ec_boundaries[k] \in 0..(Len(ec_bytes) - 33)
    /\ \A k \in 1..(Len(ec_boundaries) - 1) : ec_boundaries[k] < ec_boundaries[k + 1]
    /\ Len(ec_spans) = Len(ec_chunks)
    /\ \A k \in 1..Len(ec_spans) :
           /\ ec_spans[k][1] \in {0} \cup Range(ec_boundaries)
           /\ ec_spans[k][1] < ec_spans[k][2]
           /\ ec_spans[k][2] = NextBoundaryAfter(ec_spans[k][1])
           /\ ec_chunks[k] = simple_hash(ChunkBytes(k))
    /\ \A k \in 1..(Len(ec_spans) - 1) : ec_spans[k][2] <= ec_spans[k + 1][1]

\* two chunks with bytes between them that are in no chunk: the second starts
\* at a boundary at which no chunk ends
BoundariesAndChunksOrderedWitness ==
    /\ Extracted
    /\ \E k \in 1..(Len(ec_spans) - 1) :
           /\ ec_spans[k][2] < ec_spans[k + 1][1]
           /\ ec_spans[k + 1][1] \in Range(ec_boundaries)
           /\ \A j \in 1..Len(ec_spans) : ec_spans[j][2] # ec_spans[k + 1][1]

\* the loop over the corpus is over and the count and the division come next
AtDivision == pc = "index" /\ idx > Len(all_files)

\* C29: from the loop over the corpus on, the target's chunk list is not
\* empty, the number of its entries found in the index is at most its length,
\* the quotient of lines 293-297 is from 0 to 100, the clamp leaves it as it
\* is, and the quotient is the score returned.
ClampNeverActs ==
    (pc = "index" \/ (pc = "done" /\ target_chunks # <<>>)) =>
        LET duplicate_chunks == DuplicateChunks(target_chunks, all_chunks)
        IN  /\ target_chunks # <<>>
            /\ duplicate_chunks <= Len(target_chunks)
            /\ Quotient(duplicate_chunks, target_chunks) \in 0..100
            /\ Percentage(duplicate_chunks, target_chunks)
                   = Quotient(duplicate_chunks, target_chunks)
            /\ pc = "done" => result = Ok(Quotient(duplicate_chunks, target_chunks))

\* the division is about to be made with every entry of the target's list
\* counted, and the list holds a fingerprint twice
ClampNeverActsWitness ==
    /\ AtDivision
    /\ all_files # <<>>
    /\ DuplicateChunks(target_chunks, all_chunks) = Len(target_chunks)
    /\ \E j, k \in 1..Len(target_chunks) : j # k /\ target_chunks[j] = target_chunks[k]

(***************************************************************************)
(* The width of the rolling hash arithmetic.                               *)
(***************************************************************************)
\* a hash reduced by the modulus
Reduced(h) == h \in 0..(modulus - 1)

\* every `rolling_hash * base + byte` of the loop over the first window fits a
\* u64, and every hash it leaves is reduced
FirstWindowFits ==
    \A n \in 0..(window_size - 1) :
        /\ Reduced(InitialHashAfter(ec_bytes, n))
        /\ FitsU64(PlusSmall(Product(InitialHashAfter(ec_bytes, n), base), At(ec_bytes, n)))

\* every `result * b` and `b * b` of fast_pow(base, window_size - 1, modulus) fits a u64
FastPowFits ==
    LET rounds == FastPowRounds(1, base % modulus, window_size - 1, modulus)
    IN  \A r \in 1..Len(rounds) :
            /\ Reduced(rounds[r][1]) /\ Reduced(rounds[r][2])
            /\ FitsU64(Product(rounds[r][1], rounds[r][2]))
            /\ FitsU64(Product(rounds[r][2], rounds[r][2]))

\* the round of the rolling loop that comes next stays within a u64: the
\* leaving byte's product with the power fits, its share is not more than the
\* hash plus the modulus, and the product of the remaining hash and the base,
\* plus the entering byte, fits
RoundFits ==
    /\ FitsU64(Product(At(ec_bytes, ec_i - window_size), power))
    /\ Minuend(ec_rolling_hash) - LeavingShare(ec_bytes, ec_i) >= 0
    /\ Minuend(ec_rolling_hash) < 2 * modulus
    /\ Reduced(Removed(ec_bytes, ec_i, ec_rolling_hash))
    /\ FitsU64(PlusSmall(Product(Removed(ec_bytes, ec_i, ec_rolling_hash), base),
                         At(ec_bytes, ec_i)))

\* the largest products that reduced hashes and bytes can form fit a u64
LargestProductsFit ==
    /\ FitsU64(Product(modulus - 1, modulus - 1))
    /\ FitsU64(PlusSmall(Product(modulus - 1, base), 255))
    /\ FitsU64(Product(255, modulus - 1))

\* C30: no operation on the rolling hash leaves the range of a u64: the hash
\* is below 1_000_000_007 after the first window and after every round, the
\* products of the first window's loop and of fast_pow fit, and in every round
\* the subtraction does not go below zero and both products fit; so do the
\* largest products that hashes below the modulus and bytes can form.
NoOverflowInRollingHash ==
    /\ Reduced(ec_rolling_hash)
    /\ LargestProductsFit
    /\ (Rolling /\ ec_i = window_size) => FirstWindowFits
    /\ (Rolling /\ ec_i < Len(ec_bytes)) => (FastPowFits /\ RoundFits)

\* a round where a byte of the highest code point leaves, its share is more
\* than the hash, and the product of the remaining hash and the base is 2^32
\* or more
NoOverflowInRollingHashWitness ==
    /\ Rolling
    /\ ec_i < Len(ec_bytes)
    /\ At(ec_bytes, ec_i - window_size) = 244
    /\ ec_rolling_hash < LeavingShare(ec_bytes, ec_i)
    /\ Product(Removed(ec_bytes, ec_i, ec_rolling_hash), base)[4] >= 5

=============================================================================
